---- MODULE Spec2Model ----
(***************************************************************************)
(* A model of hid-recorder / hid-replay.                                   *)
(*                                                                         *)
(* Part 1: the live capture pipeline of src/src/hidraw.rs (read_events,    *)
(* preload_bpf_tracer, read_events_loop, bpf_event_handler).               *)
(* Part 2: the recording text format: the writer of src/src/main.rs and    *)
(* the parser of src/hid-replay/src/main.rs.                               *)
(*                                                                         *)
(* Bytes of the capture pipeline are modelled by their provenance: the     *)
(* handler and the read loop only copy bytes, so a byte is the triple      *)
(* <<source, id, offset>> of where it came from.                           *)
(***************************************************************************)
EXTENDS Integers, Sequences, FiniteSets, TLC

VARIABLES
    pc,              \* position of the recorder inside read_events
    use_bpf,         \* the --bpf option: "Never", "Auto", "Always"; "moved"
                     \* once preload_bpf_tracer has taken it
    overflow_checks, \* the build: TRUE = arithmetic overflow panics (debug)
    bpffs,           \* TRUE when /sys/fs/bpf/hid/<device> exists: HID-BPF
                     \* programs are attached to the device
    skel,            \* HidBpfSkel chosen by preload_bpf_tracer
    attempted,       \* kernel programs whose load was attempted
    failed,          \* kernel programs whose load or attach failed
    link,            \* the kernel program attachment held by the session
    ringbuf,         \* TRUE when read_events_loop got Some(map_ringbuf)
    start_time,      \* OnceCell<Instant>: None or Some(instant)
    last_timestamp,  \* Option<Instant>
    now,             \* the monotonic clock, in microseconds
    inputs,          \* inputs taken from the environment so far: ring
                     \* payloads, device reads and clock advances
    data,            \* the written prefix of the read buffer [0; 1024]
    bpf_vec,         \* the reassembly buffer
    has_events,      \* result of the last poll: <<device, ring buffer>>
    elapsed,         \* the local `elapsed` of the direct-read branch, with
                     \* the instant at which it was taken
    ring,            \* payloads waiting in the kernel ring buffer
    next_id,         \* ring payloads produced so far, plus one
    out,             \* the data records written to the output, in order
    stderr,          \* ids of the payloads logged to the error stream
    hist,            \* the payloads handed to bpf_event_handler, in order
    reads,           \* the outcomes of the device reads, in order
    err              \* the error the session ended with, or "none"

capVars == <<pc, use_bpf, overflow_checks, bpffs, skel, attempted, failed,
             link, ringbuf, start_time, last_timestamp, now, inputs, data,
             bpf_vec, has_events, elapsed, ring, next_id, out, stderr, hist,
             reads, err>>

VARIABLES
    device,          \* the RDescFile the recorder writes: name, ids, descriptor
    file,            \* the recording text, a sequence of lines of characters
    written,         \* history: what each line of the file was written from
    recording,       \* the result of the replay parser on the file
    backend,         \* the result of the recorder's own parser on the file
    cpc              \* position in the write-then-replay session

codecVars == <<device, file, written, recording, backend, cpc>>

VARIABLES
    rpc,             \* position of hid_replay: "read" and "glob" (the wait
                     \* for the device node), "armed", "replay", "stopped"
    revents,         \* recording.events of hid_replay
    uhid,            \* requests of the kernel the uhid device has to read
    replies,         \* history: the replies written to the uhid device
    sysfs,           \* the entries the glob matches: TRUE with a hidraw child
    observed,        \* history: the entries the last glob round saw
    rnow,            \* the clock of the replay, in microseconds
    loop_start,      \* start_time of the current replay
    idx,             \* the event the for loop is at
    writes,          \* history: the events written to the uhid device
    triggers,        \* history: the lines read from stdin
    renv             \* number of steps of the kernel so far

replayVars == <<rpc, revents, uhid, replies, sysfs, observed, rnow,
                loop_start, idx, writes, triggers, renv>>

(***************************************************************************)
(* The descriptor item listing (print_rdesc_items), the number-array       *)
(* descriptor input (numberarray.rs), the printing of the values of an     *)
(* Array field (print_field_values) and the replay window (hid-replay      *)
(* --start-time / --stop-time).                                            *)
(***************************************************************************)
VARIABLES
    items,           \* the items of the report descriptor, in order
    ioff,            \* number of items the loop has been through
    indent,          \* the indent of print_rdesc_items; a value below 0
                     \* stands for the usize 2^64 + indent
    listing,         \* history: the lines printed, with their indent
    ipc,             \* "idle", "items", "ok", "error", "panic", "abort"
    nasrc,           \* history: the tokens, the separator and the wrapping
                     \* the text was written from
    natext,          \* the text NumberArrayBackend::try_from reads
    nabackend,       \* its result
    napc,            \* "idle", "parse", "done"
    field,           \* the Array field, the values extracted for it and
                     \* the program that prints them
    fvout,           \* what print_field_values prints for it
    fpc,             \* "idle", "print", "done"
    cli,             \* cli.start_time and cli.stop_time, in milliseconds
    recorded,        \* history: recording.events before the window
    pos,             \* the place of the '*' of the progress line
    direction        \* 1 or -1: the way the '*' moves

descVars == <<items, ioff, indent, listing, ipc>>

naVars == <<nasrc, natext, nabackend, napc>>

fieldVars == <<field, fvout, fpc>>

winVars == <<cli, recorded, pos, direction>>

toolVars == <<descVars, naVars, fieldVars, winVars>>

vars == <<capVars, codecVars, replayVars, toolVars>>

(***************************************************************************)
(* Bounds of the model.                                                    *)
(***************************************************************************)
MaxInputs == 5       \* ring payloads, device reads and clock advances of
                     \* one capture run, together
MaxHandled == 3      \* payloads handed to the handler in a handler-only run
ReportSizeInBytes == 2   \* report.size_in_bytes() of the test descriptor
TickStep == 6000000      \* microseconds by which the clock advances

(***************************************************************************)
(* Option values.                                                          *)
(***************************************************************************)
None == <<>>
Some(v) == <<v>>
IsSome(o) == o # <<>>
Unwrap(o) == o[1]

\* the replay parser's result before it has a Recording
NoRecording(status, at) ==
    [status |-> status, at |-> at, name |-> None, ids |-> None,
     rdesc |-> None, events |-> <<>>]

\* no recording is written or replayed during a capture
CodecIdle ==
    /\ device = [name |-> <<"a">>, ids |-> <<3, 1133, 50475>>,
                 rdesc |-> <<5, 1>>]
    /\ file = <<>>
    /\ written = <<>>
    /\ recording = NoRecording("none", 0)
    /\ backend = NoRecording("none", 0)
    /\ cpc = "idle"

\* no replay runs during a capture or while a recording is written
ReplayIdle ==
    /\ rpc = "idle"
    /\ revents = <<>>
    /\ uhid = <<>>
    /\ replies = <<>>
    /\ sysfs = <<>>
    /\ observed = <<>>
    /\ rnow = 0
    /\ loop_start = 0
    /\ idx = 0
    /\ writes = <<>>
    /\ triggers = <<>>
    /\ renv = 0

\* no descriptor is listed
DescIdle ==
    /\ items = <<>>
    /\ ioff = 0
    /\ indent = 0
    /\ listing = <<>>
    /\ ipc = "idle"

\* no number array is parsed
NumberArrayIdle ==
    /\ nasrc = [tokens |-> <<>>, sep |-> <<>>, lead |-> <<>>,
                open |-> <<>>, close |-> <<>>]
    /\ natext = <<>>
    /\ nabackend = [status |-> "none", bytes |-> <<>>]
    /\ napc = "idle"

\* no field values are printed
FieldIdle ==
    /\ field = [program |-> "none", usage_page |-> 0, usage_minimum |-> 0,
                usage_maximum |-> 0, vs |-> <<>>]
    /\ fvout = <<>>
    /\ fpc = "idle"

\* no window is asked for
WindowIdle ==
    /\ cli = [start_time |-> 0, stop_time |-> 0]
    /\ recorded = <<>>
    /\ pos = 0
    /\ direction = 1

ToolIdle == DescIdle /\ NumberArrayIdle /\ FieldIdle /\ WindowIdle

Last(s) == s[Len(s)]

RECURSIVE Concat(_)
Concat(ss) == IF ss = <<>> THEN <<>> ELSE Head(ss) \o Concat(Tail(ss))

(***************************************************************************)
(* hid_recorder_event and its handler.                                     *)
(***************************************************************************)
PACKET_SIZE == 64

\* std::mem::size_of::<hid_recorder_event>(): three u8 fields and the payload
SizeOfEvent == 3 + PACKET_SIZE

\* A ring-buffer payload: `size` is data.len(); the three fields are what the
\* reinterpreted struct holds; `id` names the payload's 64 data bytes.
Packet(sz, cnt, num, len, id) ==
    [size |-> sz, packet_count |-> cnt, packet_number |-> num,
     length |-> len, id |-> id]

\* event.data
EventData(e) == [i \in 1..PACKET_SIZE |-> <<"B", e.id, i>>]

\* data.len() != size_of::<hid_recorder_event>()
InvalidSizeMutant(e) == FALSE
InvalidSize(e) == e.size # SizeOfEvent

\* event.packet_count - 1 on u8: wraps when overflow checks are off
PacketCountMinusOne(e) == (e.packet_count - 1) % 256

\* event.packet_number == event.packet_count - 1
IsLastPacket(e) == e.packet_number = PacketCountMinusOne(e)

\* let size = if last { length - packet_number * PACKET_SIZE } else { PACKET_SIZE }
\* (as a mathematical integer; a negative value is a usize underflow)
CopySizeMutant(e) == IF IsLastPacket(e) THEN e.length ELSE PACKET_SIZE
CopySize(e) ==
    IF IsLastPacket(e)
    THEN e.length - e.packet_number * PACKET_SIZE
    ELSE PACKET_SIZE

\* if event.packet_number == 0 { buffer.clear() }
ClearOnFirstMutant(e, buffer) == buffer
ClearOnFirst(e, buffer) == IF e.packet_number = 0 THEN <<>> ELSE buffer

\* The handler panics: start_time.get().unwrap() on an unset cell, the u8
\* subtraction packet_count - 1 under overflow checks, the usize subtraction
\* (a panic under overflow checks, otherwise a wrapped size that the slice
\* rejects), or the slice &event.data[..size] with size > PACKET_SIZE.
HandlerPanics(e) ==
    \/ start_time = None
    \/ e.packet_count = 0 /\ overflow_checks
    \/ CopySize(e) < 0
    \/ CopySize(e) > PACKET_SIZE

\* print_bpf_input_report_data(buffer, &elapsed): one B: record. `ts` is the
\* elapsed time printed, `clock` the instant at which it was taken, `at` the
\* number of the payload that completed the record.
BRecord(buffer, el, at) ==
    [kind |-> "B", ts |-> el, clock |-> now, bytes |-> buffer, at |-> at]

\* bpf_event_handler(data, buffer, start_time), called with payload e
bpf_event_handler(e) ==
    /\ hist' = Append(hist, e)
    /\ IF InvalidSize(e)
       THEN /\ stderr' = Append(stderr, e.id)
            /\ UNCHANGED <<bpf_vec, out, pc, err>>
       ELSE IF e.length = 0
       THEN UNCHANGED <<bpf_vec, out, stderr, pc, err>>
       ELSE IF HandlerPanics(e)
       THEN /\ pc' = "panic"
            /\ err' = "handler_panic"
            /\ bpf_vec' = IF start_time = None \/ CopySize(e) < 0
                             \/ (e.packet_count = 0 /\ overflow_checks)
                          THEN bpf_vec
                          ELSE ClearOnFirst(e, bpf_vec)
            /\ UNCHANGED <<out, stderr>>
       ELSE LET el == now - Unwrap(start_time)
                buffer == ClearOnFirst(e, bpf_vec)
                           \o SubSeq(EventData(e), 1, CopySize(e))
            IN /\ bpf_vec' = buffer
               /\ out' = IF IsLastPacket(e)
                         THEN Append(out, BRecord(buffer, el, Len(hist) + 1))
                         ELSE out
               /\ UNCHANGED <<stderr, pc, err>>

(***************************************************************************)
(* The capture session: HidrawBackend::read_events.                        *)
(***************************************************************************)
BpfOptions == {"Never", "Auto", "Always"}

\* let enable_bpf = match use_bpf { Never => false, Always => true,
\*                                  Auto => bpffs.exists() }
enable_bpf_mutant(use, bpffs_exists) == use = "Always" \/ bpffs_exists

enable_bpf(use, bpffs_exists) ==
    CASE use = "Never" -> FALSE
      [] use = "Always" -> TRUE
      [] OTHER -> bpffs_exists

\* What the kernel and the file system answer during preload_bpf_tracer.
PreloadEnv ==
    [sysfs_ok : BOOLEAN, bpffs_exists : BOOLEAN, open_ok : BOOLEAN,
     load_ok : BOOLEAN, tracing_ok : BOOLEAN]

\* preload_bpf_tracer(use_bpf, path): the HidBpfSkel it returns, or how it ends
preload_bpf_tracer(use, env) ==
    IF ~env.sysfs_ok
    THEN [end |-> "error", skel |-> "unset", err |-> "sysfs",
          attempted |-> {}, failed |-> {}]
    ELSE IF ~enable_bpf(use, env.bpffs_exists)
    THEN [end |-> "ok", skel |-> "None", err |-> "none",
          attempted |-> {}, failed |-> {}]
    ELSE IF ~env.open_ok
    THEN [end |-> "panic", skel |-> "unset", err |-> "struct_ops_open",
          attempted |-> {"struct_ops"}, failed |-> {"struct_ops"}]
    ELSE IF env.load_ok
    THEN [end |-> "ok", skel |-> "StructOps", err |-> "none",
          attempted |-> {"struct_ops"}, failed |-> {}]
    ELSE IF env.tracing_ok
    THEN [end |-> "ok", skel |-> "Tracing", err |-> "none",
          attempted |-> {"struct_ops", "tracing"}, failed |-> {"struct_ops"}]
    ELSE [end |-> "error", skel |-> "unset", err |-> "tracing_load",
          attempted |-> {"struct_ops", "tracing"},
          failed |-> {"struct_ops", "tracing"}]

\* A `?` or bail! that leaves read_events: the locals are dropped, and with
\* them the struct_ops Link (the tracing arm's _link is a plain integer).
Return(kind, e) ==
    /\ pc' = kind
    /\ err' = e
    /\ link' = IF link = "struct_ops" THEN "none" ELSE link

\* if self.device_path.is_none() { return Ok(()) }
NoDevicePath ==
    /\ pc = "start"
    /\ pc' = "exit_ok"
    /\ UNCHANGED <<use_bpf, overflow_checks, bpffs, skel, attempted, failed, link,
                   ringbuf, start_time, last_timestamp, now, inputs, data,
                   bpf_vec, has_events, elapsed, ring, next_id, out, stderr,
                   hist, reads, err>>
    /\ UNCHANGED <<codecVars, replayVars, toolVars>>

\* match preload_bpf_tracer(use_bpf, path)?
Preload ==
    /\ pc = "start"
    /\ \E env \in PreloadEnv :
          LET r == preload_bpf_tracer(use_bpf, env)
          IN /\ env.bpffs_exists = bpffs
             /\ skel' = r.skel
             /\ attempted' = r.attempted
             /\ failed' = r.failed
             /\ err' = r.err
             /\ pc' = CASE r.end = "ok" -> "attach"
                        [] r.end = "error" -> "exit_err"
                        [] OTHER -> "panic"
    /\ use_bpf' = "moved"
    /\ UNCHANGED <<overflow_checks, bpffs, link, ringbuf, start_time,
                   last_timestamp, now, inputs, data, bpf_vec, has_events,
                   elapsed, ring, next_id, out, stderr, hist, reads>>
    /\ UNCHANGED <<codecVars, replayVars, toolVars>>

\* The arm of the match: attach the program, then call read_events_loop.
\*   StructOps: maps.hid_record().attach_struct_ops()?
\*   Tracing:   run_syscall_prog_attach(..).unwrap()
Attach ==
    /\ pc = "attach"
    /\ \E attach_ok \in BOOLEAN :
          CASE skel = "None" ->
                 /\ pc' = "open"
                 /\ UNCHANGED <<link, ringbuf, failed, err, attempted>>
            [] skel = "StructOps" ->
                 IF attach_ok
                 THEN /\ pc' = "open"
                      /\ link' = "struct_ops"
                      /\ ringbuf' = TRUE
                      /\ UNCHANGED <<failed, err, attempted>>
                 ELSE /\ pc' = "exit_err"
                      /\ err' = "struct_ops_attach"
                      /\ failed' = failed \cup {"struct_ops"}
                      /\ UNCHANGED <<link, ringbuf, attempted>>
            [] OTHER ->
                 IF attach_ok
                 THEN /\ pc' = "open"
                      /\ link' = "tracing"
                      /\ ringbuf' = TRUE
                      /\ UNCHANGED <<failed, err, attempted>>
                 ELSE /\ pc' = "panic"
                      /\ err' = "tracing_attach"
                      /\ failed' = failed \cup {"tracing"}
                      /\ UNCHANGED <<link, ringbuf, attempted>>
    /\ UNCHANGED <<use_bpf, overflow_checks, bpffs, skel, start_time, last_timestamp,
                   now, inputs, data, bpf_vec, has_events, elapsed, ring,
                   next_id, out, stderr, hist, reads>>
    /\ UNCHANGED <<codecVars, replayVars, toolVars>>

\* read_events_loop up to its loop: OpenOptions::new()...open(path)?
OpenDevice ==
    /\ pc = "open"
    /\ \E open_ok \in BOOLEAN :
          IF open_ok
          THEN /\ pc' = "poll"
               /\ UNCHANGED <<err, link>>
          ELSE Return("exit_err", "open")
    /\ UNCHANGED <<use_bpf, overflow_checks, bpffs, skel, attempted, failed, ringbuf,
                   start_time, last_timestamp, now, inputs, data, bpf_vec,
                   has_events, elapsed, ring, next_id, out, stderr, hist,
                   reads>>
    /\ UNCHANGED <<codecVars, replayVars, toolVars>>

(***************************************************************************)
(* read_events_loop: the poll loop.                                        *)
(***************************************************************************)
\* fn print_current_time(last_timestamp) -> Option<Instant>
print_current_time(last) ==
    IF last = None \/ (now - Unwrap(last)) \div 1000000 > 5
    THEN Some(now)
    ELSE last

\* start_time.get_or_init(|| v)
get_or_init_mutant(cell, v) == Some(v)
get_or_init(cell, v) == IF cell = None THEN Some(v) ELSE cell

\* The results f.read(&mut data) can have: Ok(n), or an io::ErrorKind
ReadLens == {0, ReportSizeInBytes}
ReadErrors == {"WouldBlock", "Other"}

\* e.kind() != std::io::ErrorKind::WouldBlock  =>  bail!(e)
read_error_is_fatal_mutant(kind) == FALSE
read_error_is_fatal(kind) == kind # "WouldBlock"

\* data[i], the buffer starting as [0; 1024]
DataAt(buf, i) == IF i <= Len(buf) THEN buf[i] ELSE <<"Z", 0, 0>>

\* the buffer after a read of n bytes, the k-th read of the session
DataAfterRead(buf, n, k) ==
    [i \in 1..n |-> <<"H", k, i>>] \o SubSeq(buf, n + 1, Len(buf))

\* print_input_report_data(&data, rdesc, &elapsed): one E: record holding
\* bytes[..report.size_in_bytes()]
ERecord(buf, el, at) ==
    [kind |-> "E", ts |-> el.dur, clock |-> el.at,
     bytes |-> [i \in 1..ReportSizeInBytes |-> DataAt(buf, i)], at |-> at]

\* The payloads the kernel program may put into the ring buffer in a
\* capture run: a one-packet event and the first packet of a 66-byte event.
CapturePackets(id) ==
    { Packet(SizeOfEvent, 1, 0, 2, id),
      Packet(SizeOfEvent, 2, 0, 66, id) }

\* The kernel program submits a payload to the ring buffer. The loop looks
\* at the ring buffer when it polls and when it consumes: a payload that
\* arrives at another position is seen as one arriving at the next of these.
KernelEmit ==
    /\ ringbuf
    /\ pc \in {"poll", "consume_read", "consume"}
    /\ inputs < MaxInputs
    /\ \E e \in CapturePackets(next_id) : ring' = Append(ring, e)
    /\ next_id' = next_id + 1
    /\ inputs' = inputs + 1
    /\ UNCHANGED <<pc, use_bpf, overflow_checks, bpffs, skel, attempted, failed,
                   link, ringbuf, start_time, last_timestamp, now,
                   data, bpf_vec, has_events, elapsed, out, stderr, hist,
                   reads, err>>
    /\ UNCHANGED <<codecVars, replayVars, toolVars>>

\* Time passes, by more than the five seconds after which
\* print_current_time prints the time again.

\* The loop reads the clock when it handles a read, a payload or a ready
\* ring buffer: time passing at another position is seen at the next of
\* these.
Tick ==
    /\ pc \in {"read", "consume_read", "ring", "consume"}
    /\ inputs < MaxInputs
    /\ now' = now + TickStep
    /\ inputs' = inputs + 1
    /\ UNCHANGED <<pc, use_bpf, overflow_checks, bpffs, skel, attempted, failed,
                   link, ringbuf, start_time, last_timestamp, data, bpf_vec,
                   has_events, elapsed, ring, next_id, out, stderr, hist,
                   reads, err>>
    /\ UNCHANGED <<codecVars, replayVars, toolVars>>

\* poll(&mut pollfds, timeout)? > 0, with an unbounded timeout: it returns
\* when a source is readable (the ring buffer: when it holds a payload), or
\* fails.
Poll ==
    /\ pc = "poll"
    /\ \E dev \in BOOLEAN, poll_ok \in BOOLEAN :
          IF poll_ok
          THEN LET rb == ringbuf /\ ring # <<>>
               IN /\ dev \/ rb
                  /\ dev => inputs < MaxInputs
                  /\ has_events' = <<dev, rb>>
                  /\ pc' = IF dev THEN "read" ELSE "ring"
                  /\ UNCHANGED <<err, link>>
          ELSE /\ dev
               /\ Return("exit_err", "poll")
               /\ UNCHANGED has_events
    /\ UNCHANGED <<use_bpf, overflow_checks, bpffs, skel, attempted, failed, ringbuf,
                   start_time, last_timestamp, now, inputs, data, bpf_vec,
                   elapsed, ring, next_id, out, stderr, hist, reads>>
    /\ UNCHANGED <<codecVars, replayVars, toolVars>>

\* if has_events[0] { match f.read(&mut data) { Ok(_nbytes) => ... } }
\* up to `let elapsed = start_time.get().unwrap().elapsed()`
DirectReadOk ==
    /\ pc = "read"
    /\ \E n \in ReadLens, report_found \in BOOLEAN :
          LET ts == print_current_time(last_timestamp)
              st == get_or_init(start_time, Unwrap(ts))
          IN /\ reads' = Append(reads, [kind |-> "Ok", n |-> n])
             /\ inputs' = inputs + 1
             /\ data' = DataAfterRead(data, n, Len(reads) + 1)
             /\ last_timestamp' = ts
             /\ start_time' = st
             /\ IF report_found
                THEN /\ elapsed' = [dur |-> now - Unwrap(st), at |-> now]
                     /\ pc' = IF ringbuf THEN "consume_read" ELSE "print"
                     /\ UNCHANGED <<err, link>>
                ELSE \* print_input_report_description(&data, rdesc)?
                     /\ Return("exit_err", "no_matching_report")
                     /\ UNCHANGED elapsed
    /\ UNCHANGED <<use_bpf, overflow_checks, bpffs, skel, attempted, failed, ringbuf,
                   now, bpf_vec, has_events, ring, next_id, out,
                   stderr, hist>>
    /\ UNCHANGED <<codecVars, replayVars, toolVars>>

\* Err(e) => { if e.kind() != WouldBlock { bail!(e) } }
DirectReadErr ==
    /\ pc = "read"
    /\ \E kind \in ReadErrors :
          /\ reads' = Append(reads, [kind |-> kind, n |-> 0])
          /\ inputs' = inputs + 1
          /\ IF read_error_is_fatal(kind)
             THEN Return("exit_err", kind)
             ELSE /\ pc' = "ring"
                  /\ UNCHANGED <<err, link>>
    /\ UNCHANGED <<use_bpf, overflow_checks, bpffs, skel, attempted, failed, ringbuf,
                   start_time, last_timestamp, now, data, bpf_vec,
                   has_events, elapsed, ring, next_id, out, stderr, hist>>
    /\ UNCHANGED <<codecVars, replayVars, toolVars>>

\* ringbuf.consume(): the callback runs on the next waiting payload
Callback ==
    /\ pc \in {"consume_read", "consume"}
    /\ ring # <<>>
    /\ bpf_event_handler(Head(ring))
    /\ ring' = Tail(ring)
    /\ UNCHANGED <<use_bpf, overflow_checks, bpffs, skel, attempted, failed, link,
                   ringbuf, start_time, last_timestamp, now, inputs, data,
                   has_events, elapsed, next_id, reads>>
    /\ UNCHANGED <<codecVars, replayVars, toolVars>>

\* ringbuf.consume() returns: no payload is waiting
ConsumeDone ==
    /\ pc \in {"consume_read", "consume"}
    /\ ring = <<>>
    /\ pc' = IF pc = "consume_read" THEN "print" ELSE "poll"
    /\ UNCHANGED <<use_bpf, overflow_checks, bpffs, skel, attempted, failed, link,
                   ringbuf, start_time, last_timestamp, now, inputs, data,
                   bpf_vec, has_events, elapsed, ring, next_id, out, stderr,
                   hist, reads, err>>
    /\ UNCHANGED <<codecVars, replayVars, toolVars>>

\* print_input_report_data(&data, rdesc, &elapsed)?
PrintE ==
    /\ pc = "print"
    /\ out' = Append(out, ERecord(data, elapsed, Len(reads)))
    /\ pc' = "ring"
    /\ UNCHANGED <<use_bpf, overflow_checks, bpffs, skel, attempted, failed, link,
                   ringbuf, start_time, last_timestamp, now, inputs, data,
                   bpf_vec, has_events, elapsed, ring, next_id, stderr, hist,
                   reads, err>>
    /\ UNCHANGED <<codecVars, replayVars, toolVars>>

\* the ring branch before its consume:
\*   let _ = start_time.get_or_init(|| last_timestamp.unwrap());
ring_start_time_mutant(cell, v) == cell

ring_start_time(cell, v) == get_or_init(cell, v)

\* if *has_events.get(1).unwrap_or(&false) { if let Some(ref ringbuf) = ... }
RingBranch ==
    /\ pc = "ring"
    /\ IF has_events[2] /\ ringbuf
       THEN LET ts == print_current_time(last_timestamp)
            IN /\ last_timestamp' = ts
               /\ start_time' = ring_start_time(start_time, Unwrap(ts))
               /\ pc' = "consume"
       ELSE /\ pc' = "poll"
            /\ UNCHANGED <<last_timestamp, start_time>>
    /\ UNCHANGED <<use_bpf, overflow_checks, bpffs, skel, attempted, failed, link,
                   ringbuf, now, inputs, data, bpf_vec, has_events, elapsed,
                   ring, next_id, out, stderr, hist, reads, err>>
    /\ UNCHANGED <<codecVars, replayVars, toolVars>>

RecorderStart ==
    /\ pc = "start"
    /\ use_bpf \in BpfOptions
    /\ overflow_checks = FALSE
    /\ bpffs \in BOOLEAN
    /\ skel = "unset"
    /\ attempted = {}
    /\ failed = {}
    /\ link = "none"
    /\ ringbuf = FALSE
    /\ start_time = None
    /\ last_timestamp = None
    /\ now = 0
    /\ inputs = 0
    /\ data = <<>>
    /\ bpf_vec = <<>>
    /\ has_events = <<FALSE, FALSE>>
    /\ elapsed = [dur |-> 0, at |-> 0]
    /\ ring = <<>>
    /\ next_id = 1
    /\ out = <<>>
    /\ stderr = <<>>
    /\ hist = <<>>
    /\ reads = <<>>
    /\ err = "none"

CaptureInit == RecorderStart /\ CodecIdle /\ ReplayIdle /\ ToolIdle

CaptureNext ==
    \/ NoDevicePath
    \/ Preload
    \/ Attach
    \/ OpenDevice
    \/ Poll
    \/ DirectReadOk
    \/ DirectReadErr
    \/ Callback
    \/ ConsumeDone
    \/ PrintE
    \/ RingBranch
    \/ KernelEmit
    \/ Tick

\* The capture session, from the call of read_events.
SpecCapture == CaptureInit /\ [][CaptureNext]_vars

(***************************************************************************)
(* The handler alone: any payloads, one after the other.                   *)
(***************************************************************************)
\* The state of a capture run whose loop is consuming the ring buffer, with
\* capture_start set, the given build and the given reassembly buffer.
HandlerInit(checks, buffer, waiting) ==
    /\ pc = "consume"
    /\ use_bpf = "moved"
    /\ overflow_checks = checks
    /\ bpffs = TRUE
    /\ skel = "StructOps"
    /\ attempted = {"struct_ops"}
    /\ failed = {}
    /\ link = "struct_ops"
    /\ ringbuf = TRUE
    /\ start_time = Some(0)
    /\ last_timestamp = Some(0)
    /\ now = 0
    /\ inputs = 0
    /\ data = <<>>
    /\ bpf_vec = buffer
    /\ has_events = <<FALSE, TRUE>>
    /\ elapsed = [dur |-> 0, at |-> 0]
    /\ ring = waiting
    /\ next_id = Len(waiting) + 1
    /\ out = <<>>
    /\ stderr = <<>>
    /\ hist = <<>>
    /\ reads = <<>>
    /\ err = "none"
    /\ CodecIdle
    /\ ReplayIdle
    /\ ToolIdle

\* The field values tried: the packet counts and numbers of one- and
\* two-packet events and of no event, lengths on both sides of the packet
\* boundary.
PacketCounts == {0, 1, 2}
PacketNumbers == {0, 1}
Lengths == {0, 2, 66}

HandlerPackets(id) ==
    { Packet(SizeOfEvent, c, n, l, id) :
          c \in PacketCounts, n \in PacketNumbers, l \in Lengths }
    \cup { Packet(SizeOfEvent - 1, 1, 0, 2, id) }

\* The ring buffer hands one more payload to the callback.
Deliver ==
    /\ pc = "consume"
    /\ Len(hist) < MaxHandled
    /\ \E e \in HandlerPackets(Len(hist) + 1) : bpf_event_handler(e)
    /\ UNCHANGED <<use_bpf, overflow_checks, bpffs, skel, attempted, failed, link,
                   ringbuf, start_time, last_timestamp, now, inputs, data,
                   has_events, elapsed, ring, next_id, reads>>
    /\ UNCHANGED <<codecVars, replayVars, toolVars>>

SpecHandler ==
    /\ \E checks \in BOOLEAN : HandlerInit(checks, <<>>, <<>>)
    /\ [][Deliver]_vars

(***************************************************************************)
(* The handler on one event delivered in order.                            *)
(***************************************************************************)
\* ceil(L / PACKET_SIZE)
PacketsOf(L) == (L + PACKET_SIZE - 1) \div PACKET_SIZE

\* The packets of one event of total length L, numbered from 0, each with
\* the event's packet count and length.
EventPackets(L) ==
    [k \in 1..PacketsOf(L) |-> Packet(SizeOfEvent, PacketsOf(L), k - 1, L, k)]

EventLengths == 1..255

\* What an earlier, abandoned assembly may have left in the buffer.
StaleBuffers == { <<>>, <<<<"B", 0, 1>>, <<"B", 0, 2>>>> }

SpecInOrder ==
    /\ \E L \in EventLengths, checks \in BOOLEAN, stale \in StaleBuffers :
          HandlerInit(checks, stale, EventPackets(L))
    /\ [][Callback]_vars

(***************************************************************************)
(* Claims about the reassembly of packets.                                 *)
(***************************************************************************)
\* The payloads the handler decodes and does not skip.
Processed(e) == e.size = SizeOfEvent /\ e.length # 0

\* C1: an event of length L delivered in order as its ceil(L/64) packets is
\* emitted once, after its last packet, as the L bytes made of the first 64
\* data bytes of every packet but the last and the first L - (n-1)*64 data
\* bytes of the last; nothing is emitted before the last packet.
C1_InOrderReassembly ==
    LET all == hist \o ring
        L == all[1].length
        n == PacketsOf(L)
    IN /\ pc # "panic"
       /\ Len(all) = n
       /\ Len(hist) < n => out = <<>>
       /\ Len(hist) = n =>
             /\ Len(out) = 1
             /\ out[1].at = n
             /\ Len(out[1].bytes) = L
             /\ \A i \in 1..L :
                   out[1].bytes[i] =
                       <<"B", ((i - 1) \div PACKET_SIZE) + 1,
                         ((i - 1) % PACKET_SIZE) + 1>>

\* C1 witness: the 130-byte event of the specification has been delivered as
\* three packets and emitted over a stale buffer.
C1_Witness ==
    /\ Len(hist) = 3
    /\ ring = <<>>
    /\ hist[3].length = 130
    /\ Len(out) = 1
    /\ Len(out[1].bytes) = 130
    /\ out[1].bytes[129] = <<"B", 3, 1>>

\* C2 (as amended): once a payload with packet_number 0 has been decoded and
\* not skipped (right size, length not 0), no buffer emitted from then on
\* holds a byte of a payload that arrived before it.
C2_FirstPacketClears ==
    \A k \in 1..Len(out) : \A i \in 1..out[k].at :
        (Processed(hist[i]) /\ hist[i].packet_number = 0) =>
            \A j \in 1..Len(out[k].bytes) : out[k].bytes[j][2] >= hist[i].id

\* C2 as claimed: the same for every payload of the right size with
\* packet_number 0, whatever its length.
C2_AnyFirstPacketClears ==
    \A k \in 1..Len(out) : \A i \in 1..out[k].at :
        (hist[i].size = SizeOfEvent /\ hist[i].packet_number = 0) =>
            \A j \in 1..Len(out[k].bytes) : out[k].bytes[j][2] >= hist[i].id

\* C2 witness: a first packet left a partial assembly behind, a new first
\* packet arrived, and a buffer was emitted afterwards.
C2_Witness ==
    /\ Len(hist) = 3
    /\ Processed(hist[1]) /\ hist[1].packet_number = 0 /\ ~IsLastPacket(hist[1])
    /\ Processed(hist[2]) /\ hist[2].packet_number = 0 /\ ~IsLastPacket(hist[2])
    /\ Len(out) = 1
    /\ out[1].at = 3
    /\ Len(out[1].bytes) = 66

\* C3 as claimed: no byte of an emitted buffer is part of a buffer emitted
\* later, whatever payloads arrive in between.
C3_EmittedBytesNeverAgain ==
    \A k1 \in 1..Len(out) : \A k2 \in 1..Len(out) :
        k1 < k2 =>
            \A j \in 1..Len(out[k2].bytes) : out[k2].bytes[j][2] > out[k1].at

\* C4: a payload of the wrong size is logged and changes neither the
\* reassembly buffer nor the output nor the position of the loop.
C4_WrongSizeDropped ==
    [][(hist' # hist /\ Last(hist').size # SizeOfEvent) =>
          /\ bpf_vec' = bpf_vec
          /\ out' = out
          /\ pc' = pc
          /\ stderr' = Append(stderr, Last(hist').id)]_vars

\* C4 witness: a payload of the wrong size arrived in the middle of an
\* assembly, which is still in the buffer.
C4_Witness ==
    /\ Len(hist) = 2
    /\ hist[2].size # SizeOfEvent
    /\ Len(bpf_vec) = PACKET_SIZE
    /\ stderr = <<2>>
    /\ out = <<>>

(***************************************************************************)
(* Claims about the capture loop.                                          *)
(***************************************************************************)
\* A source has delivered: a device read returned data, or the ring buffer
\* was readable and consumed.
Delivered == hist # <<>> \/ \E i \in 1..Len(reads) : reads[i].kind = "Ok"

\* C5: capture_start is unset until a source first delivers, is set to the
\* instant of that wake-up, never changes afterwards, and every record's
\* timestamp is the time from that instant to the instant it was taken.
C5_OneCaptureStart ==
    /\ [](start_time = None => (~Delivered /\ out = <<>>))
    /\ [](Delivered => start_time # None)
    /\ [](\A k \in 1..Len(out) :
             out[k].ts = out[k].clock - Unwrap(start_time))
    /\ [][start_time' # start_time =>
             (start_time = None /\ start_time' = Some(now))]_vars

\* C5 witness: records of both sources, taken at different instants, after
\* capture_start was set.
C5_Witness ==
    /\ start_time # None
    /\ \E k1 \in 1..Len(out), k2 \in 1..Len(out) :
          /\ out[k1].kind = "E"
          /\ out[k2].kind = "B"
          /\ out[k1].ts # out[k2].ts

\* C6 as claimed: the timestamps of the records are non-decreasing in the
\* order in which the records are written.
C6_TimestampsNonDecreasing ==
    \A k \in 1..(Len(out) - 1) : out[k].ts <= out[k + 1].ts

\* C7 as claimed: when the tracing program cannot be loaded or attached, the
\* session neither ends with an error nor panics, and runs without a ring
\* buffer.
C7_FallbackNeverFails ==
    "tracing" \in failed => (pc \notin {"exit_err", "panic"} /\ ~ringbuf)

\* C8: a read that fails with WouldBlock writes no record, leaves
\* capture_start, the buffers and the error state alone and continues the
\* loop iteration; a read that fails otherwise ends the loop with that error.
C8_WouldBlockAbsorbed ==
    [][reads' # reads =>
          LET r == Last(reads')
          IN /\ r.kind = "WouldBlock" =>
                   /\ out' = out
                   /\ start_time' = start_time
                   /\ last_timestamp' = last_timestamp
                   /\ data' = data
                   /\ err' = "none"
                   /\ pc' = "ring"
             /\ r.kind \notin {"Ok", "WouldBlock"} =>
                   /\ out' = out
                   /\ pc' = "exit_err"
                   /\ err' = r.kind]_vars

\* C8 witness: a read failed with WouldBlock after a record was written, and
\* the loop went on to read and write another record.
C8_Witness ==
    /\ Len(reads) = 3
    /\ reads[1].kind = "Ok"
    /\ reads[2].kind = "WouldBlock"
    /\ reads[3].kind = "Ok"
    /\ Len(out) = 2

(***************************************************************************)
(* The recording text.  A line is a sequence of one-character strings, so  *)
(* that formatting and parsing are computed character by character.        *)
(***************************************************************************)
Digits == <<"0", "1", "2", "3", "4", "5", "6", "7", "8", "9",
            "a", "b", "c", "d", "e", "f">>

UpperDigits == <<"0", "1", "2", "3", "4", "5", "6", "7", "8", "9",
                 "A", "B", "C", "D", "E", "F">>

\* char::is_whitespace, for the characters the model's texts hold
Whitespace == {" ", "\t", "\n"}

\* format!("{n}") and format!("{n:x}"): the digits without padding
RECURSIVE FmtRadix(_, _)
FmtRadix(n, radix) ==
    IF n < radix THEN <<Digits[n + 1]>>
    ELSE FmtRadix(n \div radix, radix) \o <<Digits[(n % radix) + 1]>>

\* the minimum width of {:06} and {:02x}, zero padded
RECURSIVE PadZero(_, _)
PadZero(s, width) ==
    IF Len(s) >= width THEN s ELSE PadZero(<<"0">> \o s, width)

Display(n) == FmtRadix(n, 10)

Display06(n) == PadZero(FmtRadix(n, 10), 6)

LowerHex(n) == FmtRadix(n, 16)

LowerHex2(b) == PadZero(FmtRadix(b, 16), 2)

\* Vec<String>::join(sep)
RECURSIVE Join(_, _)
Join(parts, sep) ==
    IF parts = <<>> THEN <<>>
    ELSE IF Len(parts) = 1 THEN parts[1]
    ELSE parts[1] \o sep \o Join(Tail(parts), sep)

(***************************************************************************)
(* The recorder's writer.                                                  *)
(***************************************************************************)
\* "R: {} {bytestr}": length is bytes.len() when the recorder writes it
RLineWith(length, bytes) ==
    <<"R", ":", " ">> \o Display(length) \o <<" ">>
        \o Join([i \in 1..Len(bytes) |-> LowerHex2(bytes[i])], <<" ">>)

RLine(bytes) == RLineWith(Len(bytes), bytes)

NLine(name) == <<"N", ":", " ">> \o name

ILine(bustype, vid, pid) ==
    <<"I", ":", " ">> \o LowerHex(bustype) \o <<" ">> \o LowerHex(vid)
        \o <<" ">> \o LowerHex(pid)

\* "E: {:06}.{:06} {} {}": every byte is followed by a space
ELineWith(el, length, bytes) ==
    <<"E", ":", " ">> \o Display06(el \div 1000000) \o <<".">>
        \o Display06(el % 1000000) \o <<" ">> \o Display(length) \o <<" ">>
        \o Concat([i \in 1..Len(bytes) |-> LowerHex2(bytes[i]) \o <<" ">>])

ELine(el, bytes) == ELineWith(el, Len(bytes), bytes)

CommentLine(text) == <<"#", " ">> \o text

(***************************************************************************)
(* The string functions the replay parser uses.                            *)
(***************************************************************************)
\* index of the first c in s, 0 when there is none
IndexOf(s, c) ==
    IF \E i \in 1..Len(s) : s[i] = c
    THEN CHOOSE i \in 1..Len(s) : s[i] = c /\ \A j \in 1..(i - 1) : s[j] # c
    ELSE 0

\* str::split_once(c)
split_once(s, c) ==
    LET i == IndexOf(s, c)
    IN  IF i = 0 THEN None
        ELSE Some(<<SubSeq(s, 1, i - 1), SubSeq(s, i + 1, Len(s))>>)

\* str::split(c): an empty string gives one empty part
RECURSIVE split(_, _)
split(s, c) ==
    LET i == IndexOf(s, c)
    IN  IF i = 0 THEN <<s>>
        ELSE <<SubSeq(s, 1, i - 1)>> \o split(SubSeq(s, i + 1, Len(s)), c)

\* str::replace(c, "")
replace(s, c) == SelectSeq(s, LAMBDA x : x # c)

RECURSIVE trim_start(_)
trim_start(s) ==
    IF s # <<>> /\ s[1] \in Whitespace THEN trim_start(Tail(s)) ELSE s

RECURSIVE trim_end(_)
trim_end(s) ==
    IF s # <<>> /\ s[Len(s)] \in Whitespace
    THEN trim_end(SubSeq(s, 1, Len(s) - 1)) ELSE s

trim(s) == trim_end(trim_start(s))

\* char::to_digit(16): 16 stands for "not a digit"
DigitValue(c) ==
    IF \E d \in 1..16 : Digits[d] = c
    THEN (CHOOSE d \in 1..16 : Digits[d] = c) - 1
    ELSE IF \E d \in 1..16 : UpperDigits[d] = c
    THEN (CHOOSE d \in 1..16 : UpperDigits[d] = c) - 1
    ELSE 16

\* the value of a non-empty digit string, None on a character that is no
\* digit of the radix or on a value above max (max < 0: no limit applies to
\* the numbers of the model's texts, which stay far below u64::MAX)
RECURSIVE digits_value(_, _, _, _)
digits_value(s, radix, max, acc) ==
    IF s = <<>> THEN Some(acc)
    ELSE LET d == DigitValue(s[1])
             v == acc * radix + d
         IN  IF d >= radix THEN None
             ELSE IF max >= 0 /\ v > max THEN None
             ELSE digits_value(Tail(s), radix, max, v)

\* <unsigned>::from_str_radix: an optional '+', then at least one digit
from_str_radix(s, radix, max) ==
    LET body == IF s # <<>> /\ s[1] = "+" THEN Tail(s) ELSE s
    IN  IF body = <<>> THEN None ELSE digits_value(body, radix, max, 0)

U16_MAX == 65535

\* str::parse::<u64>() and str::parse::<usize>()
parse_unsigned(s) == from_str_radix(s, 10, -1)

\* hex::decode: an even number of hex digits, either case
RECURSIVE hex_decode(_)
hex_decode(s) ==
    IF s = <<>> THEN Some(<<>>)
    ELSE IF Len(s) = 1 THEN None
    ELSE LET hi == DigitValue(s[1])
             lo == DigitValue(s[2])
             rest == hex_decode(SubSeq(s, 3, Len(s)))
         IN  IF hi >= 16 \/ lo >= 16 \/ rest = None THEN None
             ELSE Some(<<hi * 16 + lo>> \o Unwrap(rest))

(***************************************************************************)
(* The replay parser.                                                      *)
(***************************************************************************)
length_matches_mutant(length, bytes) == TRUE

length_matches(length, bytes) == length = Len(bytes)

\* data_decode: Some(bytes), or None for each of its errors
data_decode(str) ==
    LET so == split_once(str, " ")
    IN  IF so = None THEN None
        ELSE LET length == parse_unsigned(Unwrap(so)[1])
                 bytes == hex_decode(replace(Unwrap(so)[2], " "))
             IN  IF length = None \/ bytes = None THEN None
                 ELSE IF ~length_matches(Unwrap(length), Unwrap(bytes))
                 THEN None
                 ELSE bytes

\* the "I:" arm: every token and the token count are unwrapped
parse_ids(rest) ==
    LET parts == split(rest, " ")
        vals == [i \in 1..Len(parts) |-> from_str_radix(parts[i], 16, U16_MAX)]
    IN  IF Len(parts) # 3 \/ \E i \in 1..Len(parts) : vals[i] = None
        THEN None
        ELSE Some([i \in 1..3 |-> Unwrap(vals[i])])

\* the "E:" arm: Some(event), or None for each of its errors
parse_event(rest) ==
    LET so == split_once(rest, " ")
    IN  IF so = None THEN None
        ELSE LET ts == split_once(Unwrap(so)[1], ".")
             IN  IF ts = None THEN None
                 ELSE LET secs == parse_unsigned(Unwrap(ts)[1])
                          usecs == parse_unsigned(Unwrap(ts)[2])
                          bytes == data_decode(Unwrap(so)[2])
                      IN  IF secs = None \/ usecs = None \/ bytes = None
                          THEN None
                          ELSE Some([usecs |-> Unwrap(secs) * 1000000
                                                   + Unwrap(usecs),
                                     bytes |-> Unwrap(bytes)])

push_event_mutant(events, ev) ==
    IF events # <<>> /\ ev.usecs < Last(events).usecs
    THEN Append(SubSeq(events, 1, Len(events) - 1), ev) \o <<Last(events)>>
    ELSE Append(events, ev)

\* events.push(Event {..})
push_event(events, ev) == Append(events, ev)

set_name_mutant(st, rest) ==
    IF st.name = None THEN [st EXCEPT !.name = Some(rest)] ELSE st

\* the "N:" arm: the name is assigned, whatever it was
set_name(st, rest) == [st EXCEPT !.name = Some(rest)]

unknown_line_mutant(st) == st

\* the `_` arm of the match: a line without a space or with another prefix
unknown_line(st) == [st EXCEPT !.status = "error"]

\* one iteration of the loop over the trimmed line; st.status stays "run"
\* when the loop goes on
parse_line(line, st) ==
    LET so == split_once(line, " ")
        key == IF so = None THEN <<>> ELSE Unwrap(so)[1]
        rest == IF so = None THEN <<>> ELSE Unwrap(so)[2]
    IN  IF so = None THEN unknown_line(st)
        ELSE IF key = <<"N", ":">> THEN set_name(st, rest)
        ELSE IF key = <<"I", ":">>
        THEN IF parse_ids(rest) = None THEN [st EXCEPT !.status = "panic"]
             ELSE [st EXCEPT !.ids = parse_ids(rest)]
        ELSE IF key = <<"R", ":">>
        THEN IF data_decode(rest) = None THEN [st EXCEPT !.status = "error"]
             ELSE [st EXCEPT !.rdesc = data_decode(rest)]
        ELSE IF key = <<"E", ":">>
        THEN IF parse_event(rest) = None THEN [st EXCEPT !.status = "error"]
             ELSE [st EXCEPT !.events =
                                 push_event(@, Unwrap(parse_event(rest)))]
        ELSE unknown_line(st)

\* the loop: empty lines and lines starting with '#' are filtered out, then
\* the line is trimmed
RECURSIVE parse_lines(_, _, _)
parse_lines(lines, i, st) ==
    IF i > Len(lines) THEN st
    ELSE IF lines[i] = <<>> \/ lines[i][1] = "#"
    THEN parse_lines(lines, i + 1, st)
    ELSE LET r == parse_line(trim(lines[i]), st)
         IN  IF r.status # "run" THEN NoRecording(r.status, i)
             ELSE parse_lines(lines, i + 1, r)

\* parse of hid-replay: "ok" with a Recording, "error" for a returned error,
\* "panic" for an unwrap of None or Err; at is the line that ended the parse
replay_parse(lines) ==
    LET st == parse_lines(lines, 1, NoRecording("run", 0))
    IN  IF st.status # "run" THEN st
        ELSE IF st.name = None \/ st.ids = None \/ st.rdesc = None
        THEN NoRecording("panic", 0)
        ELSE [st EXCEPT !.status = "ok"]

(***************************************************************************)
(* The recorder's parser of a recording, HidRecorderBackend::try_from.     *)
(***************************************************************************)
decode_length_prefixed_data(str) == data_decode(str)

\* the "I:" arm: every token must parse, the first three are taken
backend_ids(rest) ==
    LET parts == split(rest, " ")
        vals == [i \in 1..Len(parts) |-> from_str_radix(parts[i], 16, U16_MAX)]
    IN  IF Len(parts) < 3 \/ \E i \in 1..Len(parts) : vals[i] = None
        THEN None
        ELSE Some([i \in 1..3 |-> Unwrap(vals[i])])

\* the "E:" arm
backend_event(rest) ==
    LET so == split_once(rest, " ")
    IN  IF so = None THEN None
        ELSE LET ts == split_once(Unwrap(so)[1], ".")
             IN  IF ts = None THEN None
                 ELSE LET secs == parse_unsigned(Unwrap(ts)[1])
                          usecs == parse_unsigned(Unwrap(ts)[2])
                          bytes == decode_length_prefixed_data(Unwrap(so)[2])
                      IN  IF secs = None \/ usecs = None \/ bytes = None
                          THEN None
                          ELSE Some([usecs |-> Unwrap(secs) * 1000000
                                                   + Unwrap(usecs),
                                     bytes |-> Unwrap(bytes)])

\* the match on one trimmed line: unknown prefixes are ignored
backend_line(line, st) ==
    LET so == split_once(line, " ")
        key == IF so = None THEN <<>> ELSE Unwrap(so)[1]
        rest == IF so = None THEN <<>> ELSE Unwrap(so)[2]
    IN  IF so = None THEN st
        ELSE IF key = <<"N", ":">> THEN [st EXCEPT !.name = Some(rest)]
        ELSE IF key = <<"I", ":">>
        THEN IF backend_ids(rest) = None THEN [st EXCEPT !.status = "error"]
             ELSE [st EXCEPT !.ids = backend_ids(rest)]
        ELSE IF key = <<"R", ":">>
        THEN IF decode_length_prefixed_data(rest) = None
             THEN [st EXCEPT !.status = "error"]
             ELSE [st EXCEPT !.rdesc = decode_length_prefixed_data(rest)]
        ELSE IF key = <<"E", ":">>
        THEN IF backend_event(rest) = None THEN [st EXCEPT !.status = "error"]
             ELSE [st EXCEPT !.events = Append(@, Unwrap(backend_event(rest)))]
        ELSE st

backend_trim_mutant(l) == l

\* .map(|l| String::from(l.trim()))
backend_trim(l) == trim(l)

\* the loop: every line is trimmed, then empty lines and lines starting
\* with '#' are skipped
RECURSIVE backend_lines(_, _, _)
backend_lines(lines, i, st) ==
    IF i > Len(lines) THEN st
    ELSE LET line == backend_trim(lines[i])
         IN  IF line = <<>> \/ line[1] = "#"
             THEN backend_lines(lines, i + 1, st)
             ELSE LET r == backend_line(line, st)
                  IN  IF r.status # "run" THEN NoRecording(r.status, i)
                      ELSE backend_lines(lines, i + 1, r)

\* try_from: "ok" with a HidRecorderBackend or "error"; a missing name, id
\* or descriptor is an error
try_from(lines) ==
    LET st == backend_lines(lines, 1, NoRecording("run", 0))
    IN  IF st.status # "run" THEN st
        ELSE IF st.name = None \/ st.ids = None \/ st.rdesc = None
        THEN NoRecording("error", 0)
        ELSE [st EXCEPT !.status = "ok"]

(***************************************************************************)
(* Writing a recording and replaying it.                                   *)
(***************************************************************************)
MaxEvents == 2

MaxDeclared == 2

\* HID_NAME values of the uevent file: empty, plain, ending in a space,
\* holding a space
Names == {<<>>, <<"a">>, <<"a", " ">>, <<"a", " ", "b">>}

\* HID_ID values: the ids are u32 in the recorder
IdValues == {<<3, 1133, 50475>>, <<5, 65535, 65536>>}

\* contents of the report_descriptor file, the empty file included
Descriptors == {<<>>, <<5, 1>>}

\* input reports of the device
Reports == {<<1>>, <<10, 255>>}

\* start_time.elapsed() in microseconds
ElapsedValues == {12, 1000001}

\* the bytes of a length-prefixed line somebody writes by hand
EditedData == {<<>>, <<10, 255>>}

\* lines whose first token is none of N:, I:, R:, E:: the B: line of a
\* capture with the kernel program, a word, a prefix without its space, a
\* line of one space
UnknownLines == {<<"B", ":", " ", "0", "1">>, <<"x">>,
                 <<"N", ":", "a", " ", "b">>, <<" ">>}

\* names of N: lines somebody adds
EditedNames == {<<"b">>, <<"c", " ", "d">>}

Devices ==
    [name : Names, ids : IdValues, rdesc : Descriptors]

Written(kind, length, bytes, usecs, edited) ==
    [kind |-> kind, length |-> length, bytes |-> bytes, usecs |-> usecs,
     edited |-> edited, name |-> <<>>]

WrittenName(name, edited) ==
    [Written("N", 0, <<>>, 0, edited) EXCEPT !.name = name]

Comment == Written("#", 0, <<>>, 0, FALSE)

\* a line of the item listing and a line of a report summary: comments
ItemLine == <<"#", " ", "0", "x", "0", "5">>

SummaryLine == <<"#", " ", "-", "-">>

ItemComment == [Comment EXCEPT !.kind = "#item"]

SummaryComment == [Comment EXCEPT !.kind = "#summary"]

CommentKinds == {"#", "#item", "#summary"}

parse_failed_mutant == "read_events"

\* `let rdesc = parse(&rdesc_file, &opts)?`: an error of parse ends the run
parse_failed == "exit_err"

\* parse of the recorder.  items_ok and decode_ok are the results of
\* ReportDescriptorItems::try_from and ReportDescriptor::try_from of the
\* hidreport crate; events_wanted is !cli.only_describe on a /dev path
recorder_parse ==
    /\ cpc = "parse"
    /\ \E items_ok, decode_ok, events_wanted \in BOOLEAN :
          /\ decode_ok => items_ok
          /\ LET head == <<CommentLine(device.name),
                           CommentLine(<<"R", "e", "p", "o", "r", "t">>)>>
                 header == <<RLine(device.rdesc),
                             NLine(device.name),
                             ILine(device.ids[1], device.ids[2],
                                   device.ids[3])>>
                 wheader == <<Written("R", Len(device.rdesc), device.rdesc,
                                      0, FALSE),
                              WrittenName(device.name, FALSE),
                              Written("I", 0, <<>>, 0, FALSE)>>
             IN  IF device.rdesc = <<>>
                 THEN /\ cpc' = parse_failed
                      /\ UNCHANGED <<file, written>>
                 ELSE IF ~items_ok
                 THEN /\ file' = head
                      /\ written' = <<Comment, Comment>>
                      /\ cpc' = parse_failed
                 ELSE IF ~decode_ok
                 THEN /\ file' = head \o <<ItemLine>> \o header
                      /\ written' = <<Comment, Comment, ItemComment>>
                                        \o wheader
                      /\ cpc' = parse_failed
                 ELSE /\ file' = head \o <<ItemLine>> \o header
                            \o <<CommentLine(<<"R", "e", "p", "o", "r", "t">>),
                                 SummaryLine>>
                      /\ written' = <<Comment, Comment, ItemComment>>
                                        \o wheader
                                        \o <<Comment, SummaryComment>>
                      /\ cpc' = IF events_wanted THEN "read_events"
                                ELSE "exit_ok"
    /\ UNCHANGED <<device, recording, backend>>
    /\ UNCHANGED <<capVars, replayVars, toolVars>>

\* the lines read_events writes before its loop
read_events_banner ==
    /\ cpc = "read_events"
    /\ file' = file \o <<<<"#", "#", "#", "#">>,
                         CommentLine(<<"E", ":">>),
                         <<"#">>>>
    /\ written' = written \o <<Comment, Comment, Comment>>
    /\ cpc' = "events"
    /\ UNCHANGED <<device, recording, backend>>
    /\ UNCHANGED <<capVars, replayVars, toolVars>>

\* the lines after the three header lines, comments not counted
EventLines ==
    Len(SelectSeq(written, LAMBDA w : w.kind \notin CommentKinds)) - 3

\* print_current_time and parse_input_report for one report: the comment
\* lines, the line the field values end with, and the E: line
write_event ==
    /\ cpc = "events"
    /\ EventLines < MaxEvents
    /\ \E el \in ElapsedValues, bytes \in Reports, stamp \in BOOLEAN :
          LET time == IF stamp
                      THEN <<CommentLine(<<"1", "2", ":", "0", "0">>)>>
                      ELSE <<>>
          IN  /\ file' = file \o time
                    \o <<<<"#", " ", " ", "x">>, ELine(el, bytes)>>
              /\ written' = written
                    \o [i \in 1..Len(time) |-> Comment]
                    \o <<Comment, Written("E", Len(bytes), bytes, el, FALSE)>>
    /\ UNCHANGED <<device, recording, backend, cpc>>
    /\ UNCHANGED <<capVars, replayVars, toolVars>>

\* "B: {:06}.{:06} {} {}": the line of event_handler
BLine(el, bytes) == <<"B">> \o Tail(ELine(el, bytes))

\* the ring buffer callback inside the loop of read_events writes a B: line
write_bpf_event ==
    /\ cpc = "events"
    /\ EventLines < MaxEvents
    /\ \E el \in ElapsedValues, bytes \in Reports :
          /\ file' = Append(file, BLine(el, bytes))
          /\ written' = Append(written,
                               Written("B", Len(bytes), bytes, el, FALSE))
    /\ UNCHANGED <<device, recording, backend, cpc>>
    /\ UNCHANGED <<capVars, replayVars, toolVars>>

\* somebody adds a length-prefixed line to the file by hand
edit_file ==
    /\ cpc = "events"
    /\ EventLines < MaxEvents
    /\ \E kind \in {"R", "E"}, length \in 0..MaxDeclared, bytes \in EditedData :
          /\ file' = Append(file, IF kind = "R" THEN RLineWith(length, bytes)
                                  ELSE ELineWith(12, length, bytes))
          /\ written' = Append(written, Written(kind, length, bytes, 12, TRUE))
    /\ UNCHANGED <<device, recording, backend, cpc>>
    /\ UNCHANGED <<capVars, replayVars, toolVars>>

\* somebody adds a line of another kind to the file by hand
edit_text ==
    /\ cpc = "events"
    /\ EventLines < MaxEvents
    /\ \/ \E line \in UnknownLines :
             /\ file' = Append(file, line)
             /\ written' = Append(written, Written("X", 0, <<>>, 0, TRUE))
       \/ \E name \in EditedNames :
             /\ file' = Append(file, NLine(name))
             /\ written' = Append(written, WrittenName(name, TRUE))
    /\ UNCHANGED <<device, recording, backend, cpc>>
    /\ UNCHANGED <<capVars, replayVars, toolVars>>

\* hid-replay parses the file
replay ==
    /\ cpc = "events"
    /\ recording' = replay_parse(file)
    /\ cpc' = "replayed"
    /\ UNCHANGED <<device, file, written, backend>>
    /\ UNCHANGED <<capVars, replayVars, toolVars>>

\* hid-recorder reads the file as a recording
load ==
    /\ cpc = "events"
    /\ backend' = try_from(file)
    /\ cpc' = "loaded"
    /\ UNCHANGED <<device, file, written, recording>>
    /\ UNCHANGED <<capVars, replayVars, toolVars>>

CodecInit ==
    /\ RecorderStart
    /\ use_bpf = "Never"
    /\ bpffs = FALSE
    /\ device \in Devices
    /\ file = <<>>
    /\ written = <<>>
    /\ recording = NoRecording("none", 0)
    /\ backend = NoRecording("none", 0)
    /\ cpc = "parse"
    /\ ReplayIdle
    /\ ToolIdle

CodecNext ==
    \/ recorder_parse
    \/ read_events_banner
    \/ write_event
    \/ edit_file
    \/ edit_text
    \/ replay
    \/ load

SpecCodec == CodecInit /\ [][CodecNext]_vars

\* a run of hid_recorder: the header, then the records of the capture
RecorderNext ==
    \/ recorder_parse
    \/ read_events_banner
    \/ write_event
    \/ write_bpf_event

SpecRecorder == CodecInit /\ [][RecorderNext]_vars

(***************************************************************************)
(* Claims about the recording text.                                        *)
(***************************************************************************)
NotEdited == \A i \in 1..Len(written) : ~written[i].edited

WrittenEvents == SelectSeq(written, LAMBDA w : w.kind = "E")

\* C9: a recording text the recorder wrote (header lines, comment lines, the
\* E: lines of a capture, nothing edited) is parsed by the replay parser with
\* success, and the Recording has the name, the ids, the descriptor bytes and
\* the events (count, order, microsecond timestamps, bytes) that were written.
C9_RoundTrip ==
    (cpc = "replayed" /\ NotEdited) =>
        /\ recording.status = "ok"
        /\ recording.name = Some(device.name)
        /\ recording.ids = Some(device.ids)
        /\ recording.rdesc = Some(device.rdesc)
        /\ Len(recording.events) = Len(WrittenEvents)
        /\ \A k \in 1..Len(WrittenEvents) :
              /\ recording.events[k].usecs = WrittenEvents[k].usecs
              /\ recording.events[k].bytes = WrittenEvents[k].bytes

LengthPrefixed == {i \in 1..Len(written) : written[i].kind \in {"R", "E"}}

\* the parser came as far as line i
Reached(i) == recording.status = "ok" \/ recording.at = 0 \/ recording.at >= i

LengthDiffers(i) == written[i].length # Len(written[i].bytes)

\* the bytes the Recording holds for line i: the k-th event for the k-th E:
\* line, the descriptor for the last R: line
Returned(i) ==
    IF written[i].kind = "E"
    THEN recording.events[Cardinality({j \in 1..i : written[j].kind = "E"})].bytes
    ELSE IF \E j \in (i + 1)..Len(written) : written[j].kind = "R"
    THEN written[i].bytes
    ELSE Unwrap(recording.rdesc)

UnknownPrefix == {i \in 1..Len(written) : written[i].kind = "X"}

\* C11: in the replay parser a line that is neither empty nor a comment and
\* whose first token is none of N:, I:, R:, E: ends the parse with an error
\* when the parser comes to it, and a file that holds such a line never gives
\* a Recording.
C11_UnknownLineFails ==
    cpc = "replayed" =>
        \A i \in UnknownPrefix :
            /\ recording.status # "ok"
            /\ recording.name = None /\ recording.ids = None
            /\ recording.rdesc = None /\ recording.events = <<>>
            /\ Reached(i) => recording = NoRecording("error", i)

\* an unknown line after a valid event has ended the parse
C11_Witness ==
    /\ cpc = "replayed"
    /\ \E i \in UnknownPrefix :
          /\ \E j \in 1..(i - 1) : written[j].kind = "E" /\ ~LengthDiffers(j)
          /\ recording = NoRecording("error", i)

NameLines == {i \in 1..Len(written) : written[i].kind = "N"}

LastName == written[CHOOSE i \in NameLines : \A j \in NameLines : j <= i].name

\* C12: when the file holds several N: lines, the name of a parsed recording
\* is the text of the last of them in file order, in the replay parser and in
\* the recorder's parser, whatever lines lie between them.
C12_LastNameWins ==
    Cardinality(NameLines) >= 2 =>
        /\ (cpc = "replayed" /\ recording.status = "ok") =>
              recording.name = Some(LastName)
        /\ (cpc = "loaded" /\ backend.status = "ok") =>
              backend.name = Some(LastName)

\* three N: lines, or two with an event between them, have been parsed
C12_Witness ==
    /\ cpc = "replayed"
    /\ recording.status = "ok"
    /\ \E i, j \in NameLines :
          /\ i < j
          /\ \E k \in (i + 1)..(j - 1) : written[k].kind = "E"
          /\ \A l \in NameLines : l <= j
          /\ written[i].name # written[j].name
          /\ recording.name = Some(written[j].name)

\* the events of the E: lines of the file, in file order
EventsInFileOrder ==
    LET lines == SelectSeq(written, LAMBDA w : w.kind = "E")
    IN  [k \in 1..Len(lines) |->
            [usecs |-> lines[k].usecs, bytes |-> lines[k].bytes]]

\* C13: the event list of a parsed recording holds one event per E: line, in
\* file order and not sorted by timestamp, in the replay parser and in the
\* recorder's parser.
C13_EventsInFileOrder ==
    /\ (cpc = "replayed" /\ recording.status = "ok") =>
          recording.events = EventsInFileOrder
    /\ (cpc = "loaded" /\ backend.status = "ok") =>
          backend.events = EventsInFileOrder

\* two E: lines whose timestamps decrease have been parsed
C13_Witness ==
    /\ cpc = "replayed"
    /\ recording.status = "ok"
    /\ Len(recording.events) = 2
    /\ recording.events[1].usecs > recording.events[2].usecs
    /\ recording.events = EventsInFileOrder

Records == {i \in 1..Len(written) : written[i].kind \in {"E", "B"}}

\* C14: in every run of the recorder the R:, N: and I: lines are in the
\* output before the first E: or B: record.
C14_HeaderBeforeEvents ==
    \A e \in Records :
        \A kind \in {"R", "N", "I"} :
            \E h \in 1..(e - 1) : written[h].kind = kind

\* an E: record and a B: record have been written
C14_Witness ==
    /\ \E e \in Records : written[e].kind = "E"
    /\ \E e \in Records : written[e].kind = "B"
    /\ \A kind \in {"R", "N", "I"} : \E h \in 1..Len(written) : written[h].kind = kind

(***************************************************************************)
(* The replay engine, hid_replay after the virtual device was created.     *)
(***************************************************************************)
MaxKernelSteps == 4

MaxTriggers == 2

\* how late a sleep may end and a write may return, in microseconds
Jitter == 700000

Event(usecs, id) == [usecs |-> usecs, bytes |-> <<id>>]

\* event lists of recordings: none, one at 0, two that start at 0, two that
\* start late
EventLists ==
    {<<>>,
     <<Event(0, 1)>>,
     <<Event(0, 1), Event(2000000, 2)>>,
     <<Event(2000000, 1), Event(2500000, 2)>>}

\* OutputEvent: the two synchronous requests, and any other event
RequestKinds == {"GetReport", "SetReport", "Output"}

Idle == rpc \in {"read", "glob"}

Phase == IF Idle THEN "idle" ELSE rpc

\* the kernel sends a request or an event to the uhid device
KernelRequest ==
    /\ rpc \in {"read", "glob", "armed", "replay"}
    /\ renv < MaxKernelSteps
    /\ \E kind \in RequestKinds :
          uhid' = Append(uhid, [id |-> renv + 1, kind |-> kind,
                                phase |-> Phase])
    /\ renv' = renv + 1
    /\ UNCHANGED <<rpc, revents, replies, sysfs, observed, rnow, loop_start,
                   idx, writes, triggers>>
    /\ UNCHANGED <<capVars, codecVars, toolVars>>

\* the kernel adds a sysfs entry that matches the glob, or the hidraw child
\* of an entry
KernelSysfs ==
    /\ rpc \in {"read", "glob"}
    /\ renv < MaxKernelSteps
    /\ \/ /\ Len(sysfs) < 2
          /\ sysfs' = Append(sysfs, FALSE)
       \/ \E i \in 1..Len(sysfs) :
             /\ ~sysfs[i]
             /\ sysfs' = [sysfs EXCEPT ![i] = TRUE]
    /\ renv' = renv + 1
    /\ UNCHANGED <<rpc, revents, uhid, replies, observed, rnow, loop_start,
                   idx, writes, triggers>>
    /\ UNCHANGED <<capVars, codecVars, toolVars>>

EIO == 5

\* the reply to a request: GetReport with an empty payload, SetReport
Reply(req) ==
    [id |-> req.id, kind |-> req.kind, err |-> EIO, data |-> <<>>,
     phase |-> Phase]

\* match uhid_device.read(): one request is read and answered, another event
\* is read and dropped, WouldBlock goes on, any other error ends the run
ReadUhid ==
    /\ rpc = "read"
    /\ \/ /\ uhid # <<>>
          /\ Head(uhid).kind \in {"GetReport", "SetReport"}
          /\ uhid' = Tail(uhid)
          /\ \/ /\ replies' = Append(replies, Reply(Head(uhid)))
                /\ rpc' = "glob"
             \/ /\ rpc' = "exit_err"
                /\ UNCHANGED replies
       \/ /\ uhid # <<>>
          /\ Head(uhid).kind = "Output"
          /\ uhid' = Tail(uhid)
          /\ rpc' = "glob"
          /\ UNCHANGED replies
       \/ /\ uhid = <<>>
          /\ rpc' \in {"glob", "exit_err"}
          /\ UNCHANGED <<uhid, replies>>
    /\ UNCHANGED <<revents, sysfs, observed, rnow, loop_start, idx, writes,
                   triggers, renv>>
    /\ UNCHANGED <<capVars, codecVars, toolVars>>

materialized_mutant(entries) == TRUE

\* glob(..).all(|e| .. e.join("hidraw").exists()) && have_elements
materialized(entries) ==
    /\ \A i \in 1..Len(entries) : entries[i]
    /\ entries # <<>>

\* the glob round; when it fails the loop sleeps 10 ms and reads again
Glob ==
    /\ rpc = "glob"
    /\ observed' = sysfs
    /\ rpc' = IF materialized(sysfs) THEN "armed" ELSE "read"
    /\ UNCHANGED <<revents, uhid, replies, sysfs, rnow, loop_start, idx,
                   writes, triggers, renv>>
    /\ UNCHANGED <<capVars, codecVars, toolVars>>

\* stdin.read_line: "quit" ends the loop, an error ends the run, any other
\* line (the empty line of end-of-file included) starts a replay
ReadLine ==
    /\ rpc = "armed"
    /\ Len(triggers) < MaxTriggers
    /\ \E line \in {"enter", "quit", "error"} :
          /\ triggers' = Append(triggers, line)
          /\ rpc' = CASE line = "quit" -> "stopped"
                      [] line = "error" -> "exit_err"
                      [] OTHER -> "replay"
          /\ loop_start' = IF line = "enter" THEN rnow ELSE loop_start
          /\ idx' = IF line = "enter" THEN 1 ELSE idx
    /\ UNCHANGED <<revents, uhid, replies, sysfs, observed, rnow, writes,
                   renv>>
    /\ UNCHANGED <<capVars, codecVars, toolVars>>

\* Duration::from_micros(e.usecs)
target_time(e) == e.usecs

elapsed_since_mutant(start, last, t) == t - last

\* current_time.duration_since(start_time)
elapsed_since(start, last, t) == t - start

LastWrite == IF writes = <<>> THEN loop_start ELSE Last(writes).at

\* the last column of the progress line
BarEnd == 49

\* pos += direction, on i8
bar_pos(p, d) == p + d

bar_direction_mutant(p, d) == IF p = BarEnd THEN -d ELSE d

\* if pos % 49 == 0 { direction *= -1 }, on the new pos
bar_direction(p, d) == IF p % BarEnd = 0 THEN -d ELSE d

\* one iteration of the for loop: the sleep, then the write, which fails or
\* not; the sleep and the write may take longer than asked
ReplayEvent ==
    /\ rpc = "replay"
    /\ idx <= Len(revents)
    /\ LET passed == elapsed_since(loop_start, LastWrite, rnow)
           target == target_time(revents[idx])
           interval == IF target > passed THEN target - passed ELSE 0
       IN  \E late \in {0, Jitter}, ok \in BOOLEAN :
              /\ rnow' = rnow + interval + late
              /\ IF ok
                 THEN /\ writes' = Append(writes,
                            [idx |-> idx, bytes |-> revents[idx].bytes,
                             start |-> loop_start, sampled |-> rnow,
                             target |-> target, slept |-> interval,
                             at |-> rnow + interval + late,
                             replay |-> Len(triggers)])
                      /\ idx' = idx + 1
                      /\ rpc' = "replay"
                      /\ pos' = bar_pos(pos, direction)
                      /\ direction' =
                             bar_direction(bar_pos(pos, direction), direction)
                 ELSE /\ rpc' = "exit_err"
                      /\ UNCHANGED <<writes, idx, pos, direction>>
    /\ UNCHANGED <<revents, uhid, replies, sysfs, observed, loop_start,
                   triggers, renv>>
    /\ UNCHANGED <<capVars, codecVars, descVars, naVars, fieldVars, cli,
                   recorded>>

borrowed_mutant(events) == <<>>

\* `for e in &recording.events`: the loop borrows the list and leaves it
borrowed(events) == events

\* the for loop is over: back to the prompt
ReplayDone ==
    /\ rpc = "replay"
    /\ idx > Len(revents)
    /\ rpc' = "armed"
    /\ revents' = borrowed(revents)
    /\ UNCHANGED <<uhid, replies, sysfs, observed, rnow, loop_start,
                   idx, writes, triggers, renv>>
    /\ UNCHANGED <<capVars, codecVars, toolVars>>

ReplayInit ==
    /\ RecorderStart
    /\ use_bpf = "Never"
    /\ bpffs = FALSE
    /\ CodecIdle
    /\ rpc = "read"
    /\ revents \in EventLists
    /\ uhid = <<>>
    /\ replies = <<>>
    /\ sysfs = <<>>
    /\ observed = <<>>
    /\ rnow = 0
    /\ loop_start = 0
    /\ idx = 0
    /\ writes = <<>>
    /\ triggers = <<>>
    /\ renv = 0
    /\ DescIdle
    /\ NumberArrayIdle
    /\ FieldIdle
    /\ cli = [start_time |-> 0, stop_time |-> 0]
    /\ recorded = revents
    /\ pos = 0
    /\ direction = 1

ReplayNext ==
    \/ KernelRequest
    \/ KernelSysfs
    \/ ReadUhid
    \/ Glob
    \/ ReadLine
    \/ ReplayEvent
    \/ ReplayDone

SpecReplay == ReplayInit /\ [][ReplayNext]_vars

(***************************************************************************)
(* Claims about the replay engine.                                         *)
(***************************************************************************)
\* C15: no event is written to the virtual device before a glob round has
\* seen an entry with a hidraw child.
C15_NoWriteBeforeDeviceNode ==
    writes # <<>> => \E i \in 1..Len(observed) : observed[i]

\* an event has been written after the glob saw two entries
C15_Witness ==
    /\ writes # <<>>
    /\ Len(observed) = 2
    /\ observed[1] /\ observed[2]

\* the number of replays the user has started
Started == Len(SelectSeq(triggers, LAMBDA line : line = "enter"))

\* the events of n replays, one after the other
RECURSIVE Repeated(_, _)
Repeated(events, n) ==
    IF n = 0 THEN <<>> ELSE Repeated(events, n - 1) \o events

\* the events of the recording the writes were made from
Written_events ==
    [k \in 1..Len(writes) |->
        IF writes[k].idx \in DOMAIN revents THEN revents[writes[k].idx]
        ELSE Event(0, 0)]

C17_RequestsAnswered ==
    rpc \in {"replay", "stopped"} =>
        \A i \in 1..Len(uhid) :
            uhid[i].kind \in {"GetReport", "SetReport"} =>
                uhid[i].phase \notin {"idle", "armed"}

\* C18: the target time of a replayed event is its timestamp minus the
\* timestamp of the first event, and the first event is written without a
\* sleep.
C18_TargetRelativeToFirst ==
    \A k \in 1..Len(writes) :
        /\ writes[k].target = revents[writes[k].idx].usecs - revents[1].usecs
        /\ writes[k].idx = 1 => writes[k].slept = 0

\* C19: with the target time the engine computes for an event, no event is
\* written earlier than target after the start of the loop, the sleep is
\* target minus the time since the start of the loop when that is positive
\* and 0 otherwise, and the target does not depend on how late earlier events
\* were written.
C19_PacedFromLoopStart ==
    \A k \in 1..Len(writes) :
        LET w == writes[k]
            passed == w.sampled - w.start
        IN  /\ w.target = target_time(revents[w.idx])
            /\ w.at >= w.start + w.target
            /\ w.slept = IF w.target > passed THEN w.target - passed ELSE 0

\* an event has been written on time after an event that was written late
C19_Witness ==
    \E k \in 2..Len(writes) :
        /\ writes[k].replay = writes[k - 1].replay
        /\ writes[k - 1].at > writes[k - 1].start + writes[k - 1].target
        /\ writes[k].slept > 0
        /\ writes[k].at = writes[k].start + writes[k].target

\* C20: when the descriptor cannot be decoded, nothing of its interpretation
\* is in the output: no line of the item listing, no R:, N: or I: line, no
\* report summary.
C20_DecodeAllOrNothing ==
    cpc = parse_failed =>
        \A i \in 1..Len(written) :
            written[i].kind \notin {"#item", "R", "N", "I", "#summary"}

(***************************************************************************)
(* The listing of the report descriptor items: print_rdesc_items of        *)
(* src/src/main.rs (parse_rdesc of hid-recorder/src/main.rs holds the same *)
(* loop).                                                                  *)
(***************************************************************************)
MaxItems == 4        \* items of one descriptor

\* the capture part at rest, for a build with or without overflow checks
CaptureIdle(builds) ==
    /\ pc = "start"
    /\ use_bpf = "Never"
    /\ overflow_checks \in builds
    /\ bpffs = FALSE
    /\ skel = "unset"
    /\ attempted = {}
    /\ failed = {}
    /\ link = "none"
    /\ ringbuf = FALSE
    /\ start_time = None
    /\ last_timestamp = None
    /\ now = 0
    /\ inputs = 0
    /\ data = <<>>
    /\ bpf_vec = <<>>
    /\ has_events = <<FALSE, FALSE>>
    /\ elapsed = [dur |-> 0, at |-> 0]
    /\ ring = <<>>
    /\ next_id = 1
    /\ out = <<>>
    /\ stderr = <<>>
    /\ hist = <<>>
    /\ reads = <<>>
    /\ err = "none"

\* The item types the loop tells apart, and an item whose data bytes are
\* missing at the end of the descriptor.
ItemTypes == {"Collection", "EndCollection", "Push", "Pop", "UsagePage",
              "Input"}

Truncated == "Truncated"

ItemSequences ==
    UNION {[1..n -> ItemTypes] : n \in 0..MaxItems}
    \cup {Append(s, Truncated) :
             s \in UNION {[1..n -> ItemTypes] : n \in 0..(MaxItems - 1)}}

\* ReportDescriptorItems::try_from(bytes)?
Itemize ==
    /\ ipc = "itemize"
    /\ ipc' = IF items # <<>> /\ Last(items) = Truncated
              THEN "error" ELSE "items"
    /\ UNCHANGED <<items, ioff, indent, listing>>
    /\ UNCHANGED <<capVars, codecVars, replayVars, naVars, fieldVars, winVars>>

\* if let EndCollection = item.item_type() { indent -= 2; }
\* usize: a build with overflow checks panics at 0, another one wraps to
\* 2^64 - 2, for which the value -2 stands
indent_decrement_mutant(item, i) == IF item = "Collection" THEN i - 2 ELSE i

indent_decrement(item, i) == IF item = "EndCollection" THEN i - 2 ELSE i

\* match item.item_type() { Collection(_) => indent += 2, .. }
indent_increment(item, i) == IF item = "Collection" THEN i + 2 ELSE i

\* One turn of the for loop of print_rdesc_items. The line is formatted with
\* a width of `indent`: with the wrapped indent the padding cannot be
\* allocated and the process aborts.
PrintItem ==
    /\ ipc = "items"
    /\ ioff < Len(items)
    /\ LET item == items[ioff + 1]
           i == indent_decrement(item, indent)
       IN IF i < 0 /\ overflow_checks
          THEN /\ ipc' = "panic"
               /\ UNCHANGED <<ioff, indent, listing>>
          ELSE IF i < 0
          THEN /\ ipc' = "abort"
               /\ indent' = i
               /\ UNCHANGED <<ioff, listing>>
          ELSE /\ listing' = Append(listing, [item |-> item, indent |-> i])
               /\ indent' = indent_increment(item, i)
               /\ ioff' = ioff + 1
               /\ UNCHANGED ipc
    /\ UNCHANGED items
    /\ UNCHANGED <<capVars, codecVars, replayVars, naVars, fieldVars, winVars>>

\* the end of the loop: Ok(())
ItemsDone ==
    /\ ipc = "items"
    /\ ioff = Len(items)
    /\ ipc' = "ok"
    /\ UNCHANGED <<items, ioff, indent, listing>>
    /\ UNCHANGED <<capVars, codecVars, replayVars, naVars, fieldVars, winVars>>

ItemsInit ==
    /\ CaptureIdle(BOOLEAN)
    /\ CodecIdle
    /\ ReplayIdle
    /\ items \in ItemSequences
    /\ ioff = 0
    /\ indent = 0
    /\ listing = <<>>
    /\ ipc = "itemize"
    /\ NumberArrayIdle
    /\ FieldIdle
    /\ WindowIdle

ItemsNext ==
    \/ Itemize
    \/ PrintItem
    \/ ItemsDone

SpecItems == ItemsInit /\ [][ItemsNext]_vars

\* number of items of type t among the first k items
Count(s, k, t) == Cardinality({j \in 1..k : s[j] = t})

\* item k is an EndCollection with no Collection open before it
Unmatched(s, k) ==
    /\ s[k] = "EndCollection"
    /\ Count(s, k - 1, "Collection") = Count(s, k - 1, "EndCollection")

HasUnmatched(s) == \E k \in 1..Len(s) : Unmatched(s, k)

\* C21: an EndCollection without an open Collection never takes the nesting
\* depth below zero and never ends the processing of a descriptor that
\* splits into items otherwise than by an error value: no panic, no abort,
\* no success.
C21_UnbalancedCollectionError ==
    /\ indent >= 0
    /\ (HasUnmatched(items) /\ Last(items) # Truncated) =>
           ipc \in {"itemize", "items", "error"}

\* Collection/EndCollection and Push/Pop are balanced in a sequence that
\* splits into items
Balanced(s) ==
    /\ \A k \in 1..Len(s) :
          /\ s[k] # Truncated
          /\ Count(s, k, "EndCollection") <= Count(s, k, "Collection")
          /\ Count(s, k, "Pop") <= Count(s, k, "Push")
    /\ Count(s, Len(s), "EndCollection") = Count(s, Len(s), "Collection")
    /\ Count(s, Len(s), "Pop") = Count(s, Len(s), "Push")

\* C22: the listing of a balanced item sequence does not fail, the depth is
\* not negative at any item, every item is listed and the depth is 0 after
\* the last one.
C22_BalancedSucceeds ==
    Balanced(items) =>
        /\ ipc \in {"itemize", "items", "ok"}
        /\ indent >= 0
        /\ \A k \in 1..Len(listing) :
              /\ listing[k].item = items[k]
              /\ listing[k].indent = 2 * (Count(items, k - 1, "Collection")
                                      - Count(items, k, "EndCollection"))
        /\ ipc = "ok" => indent = 0 /\ Len(listing) = Len(items)

C22_Witness ==
    /\ ipc = "ok"
    /\ Balanced(items)
    /\ \E k \in 1..Len(items) : items[k] = "Collection"
    /\ \E k \in 1..Len(items) : items[k] = "Push"

(***************************************************************************)
(* Recordings that were not written by the recorder: the two parsers on    *)
(* files with a header line missing or with another I: line.               *)
(***************************************************************************)
\* the I: lines of the files: three tokens of 16 bits, two tokens, four
\* tokens, a token that is no hex number, a token of 17 bits
IdLines == {ILine(3, 1133, 50475),
            <<"I", ":", " ", "3", " ", "4", "6", "d">>,
            <<"I", ":", " ", "3", " ", "4", "6", "d", " ", "c", "5", " ", "1">>,
            <<"I", ":", " ", "3", " ", "4", "6", "g", " ", "c", "5">>,
            ILine(3, 1133, 65536)}

\* none or one of some lines
Optional(lines) == {<<>>} \cup {<<l>> : l \in lines}

HandWrittenFiles ==
    {n \o i \o r \o e :
        n \in Optional({NLine(<<"a">>)}),
        i \in Optional(IdLines),
        r \in Optional({RLine(<<5, 1>>)}),
        e \in Optional({ELine(12, <<1, 2>>)})}

FilesInit ==
    /\ RecorderStart
    /\ use_bpf = "Never"
    /\ bpffs = FALSE
    /\ device \in Devices
    /\ device.name = <<"a">>
    /\ device.rdesc = <<5, 1>>
    /\ file \in HandWrittenFiles
    /\ written = <<>>
    /\ recording = NoRecording("none", 0)
    /\ backend = NoRecording("none", 0)
    /\ cpc = "events"
    /\ ReplayIdle
    /\ ToolIdle

FilesNext ==
    \/ replay
    \/ load

SpecFiles == FilesInit /\ [][FilesNext]_vars

\* the rest of the lines of a file that start with the token `key`
LinesOf(lines, key) ==
    LET sel == SelectSeq(lines, LAMBDA l : Len(l) >= 3
                                           /\ SubSeq(l, 1, 3) = key \o <<" ">>)
    IN  [k \in 1..Len(sel) |-> SubSeq(sel[k], 4, Len(sel[k]))]

\* three tokens, each a hex number of at most 16 bits
ThreeIds(rest) ==
    LET parts == split(rest, " ")
    IN  /\ Len(parts) = 3
        /\ \A k \in 1..3 : from_str_radix(parts[k], 16, U16_MAX) # None

\* a file that lacks an N:, I: or R: line or that has another I: line
Malformed(lines) ==
    \/ LinesOf(lines, <<"N", ":">>) = <<>>
    \/ LinesOf(lines, <<"I", ":">>) = <<>>
    \/ LinesOf(lines, <<"R", ":">>) = <<>>
    \/ \E k \in 1..Len(LinesOf(lines, <<"I", ":">>)) :
          ~ThreeIds(LinesOf(lines, <<"I", ":">>)[k])

\* C23: either parser ends on such a file with an error value, not with a
\* recording and not with a panic.
C23_MalformedIsError ==
    Malformed(file) =>
        /\ cpc = "replayed" => recording.status = "error"
        /\ cpc = "loaded" => backend.status = "error"

(***************************************************************************)
(* The number-array descriptor input: NumberArrayBackend::try_from of      *)
(* src/src/numberarray.rs. The texts hold ASCII characters only, so that   *)
(* the length of a text in bytes is its number of characters.              *)
(***************************************************************************)
MaxTokens == 2       \* tokens of one text

\* str::trim_start_matches(c) and str::trim_end_matches(c)
RECURSIVE trim_start_matches(_, _)
trim_start_matches(s, c) ==
    IF s # <<>> /\ s[1] = c THEN trim_start_matches(Tail(s), c) ELSE s

RECURSIVE trim_end_matches(_, _)
trim_end_matches(s, c) ==
    IF s # <<>> /\ s[Len(s)] = c
    THEN trim_end_matches(SubSeq(s, 1, Len(s) - 1), c) ELSE s

\* |c: char| c.is_whitespace() || c == ','
is_separator(c) == c \in Whitespace \/ c = ","

has_separators(s) == \E i \in 1..Len(s) : is_separator(s[i])

\* str::split(is_separator): the parts between the separators, the empty
\* ones included
RECURSIVE split_separators(_)
split_separators(s) ==
    IF ~has_separators(s) THEN <<s>>
    ELSE LET i == CHOOSE i \in 1..Len(s) :
                      /\ is_separator(s[i])
                      /\ \A j \in 1..(i - 1) : ~is_separator(s[j])
         IN  <<SubSeq(s, 1, i - 1)>>
                 \o split_separators(SubSeq(s, i + 1, Len(s)))

\* str::strip_prefix(p)
strip_prefix(s, p) ==
    IF Len(s) >= Len(p) /\ SubSeq(s, 1, Len(p)) = p
    THEN Some(SubSeq(s, Len(p) + 1, Len(s)))
    ELSE None

\* s.strip_prefix("0x").or_else(|| s.strip_prefix("0X")).unwrap_or(s)
strip_hex_prefix_mutant(s) == s

strip_hex_prefix(s) ==
    IF strip_prefix(s, <<"0", "x">>) # None
    THEN Unwrap(strip_prefix(s, <<"0", "x">>))
    ELSE IF strip_prefix(s, <<"0", "X">>) # None
    THEN Unwrap(strip_prefix(s, <<"0", "X">>))
    ELSE s

U8_MAX == 255

\* u8::from_str_radix(s, 16)
u8_from_str_radix(s) == from_str_radix(s, 16, U8_MAX)

\* Iterator::collect::<Result<Vec<u8>>>()?: the values, or the error of the
\* first element that has one
collect(vals) ==
    IF \E k \in 1..Len(vals) : vals[k] = None
    THEN [status |-> "parse_error", bytes |-> <<>>]
    ELSE [status |-> "ok", bytes |-> [k \in 1..Len(vals) |-> Unwrap(vals[k])]]

\* the separated form
separated(str) ==
    LET tokens == SelectSeq(split_separators(str), LAMBDA t : t # <<>>)
    IN  collect([k \in 1..Len(tokens) |->
                    u8_from_str_radix(strip_hex_prefix(trim(tokens[k])))])

\* the continuous form
continuous(str) ==
    LET hex_str == strip_hex_prefix(str)
    IN  IF Len(hex_str) % 2 # 0
        THEN [status |-> "even_digits", bytes |-> <<>>]
        ELSE collect([k \in 1..(Len(hex_str) \div 2) |->
                         u8_from_str_radix(SubSeq(hex_str, 2 * k - 1, 2 * k))])

\* NumberArrayBackend::try_from, from the text of the file to rdesc
number_array(text) ==
    LET stripped == trim_end_matches(trim_start_matches(trim(text), "["), "]")
    IN  IF has_separators(stripped) THEN separated(stripped)
        ELSE continuous(stripped)

\* The tokens of the texts, each with the byte it denotes: one and two
\* digits in either case, with and without 0x and 0X; and tokens that denote
\* no byte: a letter that is no hex digit, a value above 0xff, a sign.
Token(text, value) == [text |-> text, value |-> value]

ByteTokens == {Token(<<"1">>, Some(1)), Token(<<"A">>, Some(10)),
               Token(<<"0", "a">>, Some(10)), Token(<<"F", "f">>, Some(255)),
               Token(<<"0", "x", "1">>, Some(1)),
               Token(<<"0", "X", "f", "F">>, Some(255))}

BadTokens == {Token(<<"1", "g">>, None), Token(<<"1", "0", "0">>, None),
              Token(<<"+", "1">>, None)}

Separators == {<<>>, <<" ">>, <<",">>, <<",", " ">>, <<"\n">>, <<"\t", ",">>}

\* what stands before and after the tokens
Wrappings == {<<<<>>, <<>>>>, <<<<"[">>, <<"]">>>>,
              <<<<" ", "[">>, <<"]", " ", "\n">>>>,
              <<<<"[", " ">>, <<" ", "]">>>>,
              <<<<" ">>, <<"\t">>>>}

Leads == {<<>>, <<"0", "x">>, <<"0", "X">>}

NumberSources ==
    {[tokens |-> t, sep |-> sp, lead |-> l, open |-> w[1], close |-> w[2]] :
        t \in UNION {[1..n -> ByteTokens \cup BadTokens] : n \in 0..MaxTokens},
        sp \in Separators, l \in Leads, w \in Wrappings}

TextOf(src) ==
    src.open \o src.lead
        \o Join([k \in 1..Len(src.tokens) |-> src.tokens[k].text], src.sep)
        \o src.close

\* std::fs::read_to_string(path)? and the parse of the text
number_array_try_from ==
    /\ napc = "parse"
    /\ nabackend' = number_array(natext)
    /\ napc' = "done"
    /\ UNCHANGED <<nasrc, natext>>
    /\ UNCHANGED <<capVars, codecVars, replayVars, descVars, fieldVars, winVars>>

NumberArrayInit ==
    /\ CaptureIdle({FALSE})
    /\ CodecIdle
    /\ ReplayIdle
    /\ DescIdle
    /\ nasrc \in NumberSources
    /\ natext = TextOf(nasrc)
    /\ nabackend = [status |-> "none", bytes |-> <<>>]
    /\ napc = "parse"
    /\ FieldIdle
    /\ WindowIdle

NumberArrayNext == number_array_try_from

SpecNumberArray == NumberArrayInit /\ [][NumberArrayNext]_vars

\* the bytes a list of tokens denotes
ValuesOf(tokens) == [k \in 1..Len(tokens) |-> Unwrap(tokens[k].value)]

\* a text written in the separated form: tokens of one or two hex digits
\* with or without their 0x, a separator of whitespace and commas between
\* them, nothing or brackets and whitespace around them
SeparatedText(src) ==
    /\ \A k \in 1..Len(src.tokens) : src.tokens[k] \in ByteTokens
    /\ src.sep # <<>>
    /\ src.lead = <<>>

\* C24: the parse of every text of the separated form succeeds and gives the
\* bytes of its tokens, in order.
C24_SeparatedForm ==
    (napc = "done" /\ SeparatedText(nasrc)) =>
        nabackend = [status |-> "ok", bytes |-> ValuesOf(nasrc.tokens)]

\* the hex digits of a text written without separators
DigitsOf(src) == Concat([k \in 1..Len(src.tokens) |-> src.tokens[k].text])

\* a text written in the continuous form: hex digits only, after at most
\* one 0x or 0X, in brackets or not, with no whitespace or comma but around
\* the whole
ContinuousText(src) ==
    /\ \A k \in 1..Len(src.tokens) :
          /\ src.tokens[k] \in ByteTokens
          /\ strip_hex_prefix(src.tokens[k].text) = src.tokens[k].text
    /\ src.sep = <<>>
    /\ ~has_separators(trim(TextOf(src)))

\* the bytes of a digit string, two digits each
Pairwise(digits) ==
    [k \in 1..(Len(digits) \div 2) |->
        16 * DigitValue(digits[2 * k - 1]) + DigitValue(digits[2 * k])]

\* C25: a text of the continuous form with an even number of digits gives
\* the bytes of its digit pairs, in order; one with an odd number of digits
\* gives the error about the even number of digits and no bytes.
C25_ContinuousForm ==
    (napc = "done" /\ ContinuousText(nasrc)) =>
        IF Len(DigitsOf(nasrc)) % 2 = 0
        THEN nabackend = [status |-> "ok", bytes |-> Pairwise(DigitsOf(nasrc))]
        ELSE nabackend = [status |-> "even_digits", bytes |-> <<>>]

C25_Witness ==
    /\ napc = "done"
    /\ ContinuousText(nasrc)
    /\ nasrc.lead # <<>>
    /\ nasrc.open # <<>>
    /\ Len(DigitsOf(nasrc)) = 4
    /\ nabackend.status = "ok"

C25_OddWitness ==
    /\ napc = "done"
    /\ ContinuousText(nasrc)
    /\ Len(DigitsOf(nasrc)) = 3
    /\ nabackend.status = "even_digits"

\* a token that holds a character that is no hex digit, or that denotes a
\* value above 0xff
BadToken(t) ==
    \/ \E k \in 1..Len(strip_hex_prefix(t.text)) :
          DigitValue(strip_hex_prefix(t.text)[k]) = 16
    \/ Len(strip_hex_prefix(t.text)) > 2

\* C26: a text with such a token between separators, at whatever place,
\* or with a digit pair that holds a character that is no hex digit, gives
\* an error and no bytes.
C26_AllOrNothing ==
    /\ (/\ napc = "done"
        /\ nasrc.sep # <<>>
        /\ nasrc.lead = <<>>
        /\ \E k \in 1..Len(nasrc.tokens) : BadToken(nasrc.tokens[k])) =>
           nabackend.status # "ok" /\ nabackend.bytes = <<>>
    /\ (/\ napc = "done"
        /\ ~has_separators(trim(natext))
        /\ Len(DigitsOf(nasrc)) % 2 = 0
        /\ \A k \in 1..Len(nasrc.tokens) : Len(nasrc.tokens[k].text) = 2
        /\ \E k \in 1..Len(nasrc.tokens) : BadToken(nasrc.tokens[k])) =>
           nabackend.status # "ok" /\ nabackend.bytes = <<>>

\* the capture session is over: read_events has returned or panicked
SessionOver == pc \in {"exit_ok", "exit_err", "panic"}

\* C27: when the capture session is over no kernel program is attached for
\* it any more, neither by the struct_ops link nor by the tracing attachment.
C27_AttachmentsReleased == SessionOver => link = "none"

\* C28: once a glob round has seen an entry with a hidraw child the wait is
\* over: the engine is not Idle any more, whatever the other entries are.
C28_OneEntrySuffices ==
    (\E i \in 1..Len(observed) : observed[i]) => ~Idle

(***************************************************************************)
(* The replay window: --start-time and --stop-time of hid-replay           *)
(* (src/hid-replay/src/main.rs 132-139).                                   *)
(***************************************************************************)
MaxRecorded == 3     \* events of a recording that is windowed

\* timestamps of the events, in microseconds, and the options, in
\* milliseconds; 0 is the default of an option that is not given
Timestamps == {1000, 2000, 3000}

StartTimes == {0, 1, 2, 3}

StopTimes == {0, 2, 3}

\* the k-th event of a recording holds the byte k
Recordings ==
    {[k \in 1..n |-> Event(ts[k], k)] :
        ts \in [1..MaxRecorded -> Timestamps], n \in 0..MaxRecorded}

\* Iterator::skip_while(|e| e.usecs < start_time * 1000)
RECURSIVE skip_while(_, _)
skip_while(events, start) ==
    IF events # <<>> /\ events[1].usecs < start * 1000
    THEN skip_while(Tail(events), start)
    ELSE events

\* Iterator::take_while(|e| stop_time == 0 || e.usecs < stop_time * 1000)
RECURSIVE take_while(_, _)
take_while(events, stop) ==
    IF events # <<>> /\ (stop = 0 \/ events[1].usecs < stop * 1000)
    THEN <<events[1]>> \o take_while(Tail(events), stop)
    ELSE <<>>

\* if cli.start_time > 0 || cli.stop_time > 0 { recording.events = .. }
windowed(events, opts) ==
    IF opts.start_time > 0 \/ opts.stop_time > 0
    THEN take_while(skip_while(events, opts.start_time), opts.stop_time)
    ELSE events

\* hid_replay from the parsed recording to the creation of the device
Window ==
    /\ rpc = "parsed"
    /\ revents' = windowed(recorded, cli)
    /\ rpc' = "read"
    /\ UNCHANGED <<uhid, replies, sysfs, observed, rnow, loop_start, idx,
                   writes, triggers, renv>>
    /\ UNCHANGED <<cli, recorded, pos, direction>>
    /\ UNCHANGED <<capVars, codecVars, descVars, naVars, fieldVars>>

WindowInit ==
    /\ CaptureIdle({FALSE})
    /\ CodecIdle
    /\ rpc = "parsed"
    /\ revents = <<>>
    /\ uhid = <<>>
    /\ replies = <<>>
    /\ sysfs = <<>>
    /\ observed = <<>>
    /\ rnow = 0
    /\ loop_start = 0
    /\ idx = 0
    /\ writes = <<>>
    /\ triggers = <<>>
    /\ renv = 0
    /\ DescIdle
    /\ NumberArrayIdle
    /\ FieldIdle
    /\ cli \in [start_time : StartTimes, stop_time : StopTimes]
    /\ recorded \in Recordings
    /\ pos = 0
    /\ direction = 1

WindowNext == Window

SpecWindow == WindowInit /\ [][WindowNext]_vars

\* the event is inside the window asked for
InWindow(e, opts) ==
    /\ e.usecs >= opts.start_time * 1000
    /\ opts.stop_time > 0 => e.usecs < opts.stop_time * 1000

\* C29: the events replayed are the events of the recording inside the
\* window, all of them and no other, in the order of the file.
C29_ExactlyTheWindow ==
    rpc = "read" =>
        revents = SelectSeq(recorded, LAMBDA e : InWindow(e, cli))

(***************************************************************************)
(* The values of an Array field: print_field_values of src/src/main.rs and *)
(* of src/hid-recorder/src/main.rs.                                        *)
(***************************************************************************)
MaxValues == 2       \* report_count of the Array field

\* the usage page of the field's range and the usage ids of its ends: a
\* range of one usage and a range of three
KeyboardPage == 7

UsageRanges == {<<1, 1>>, <<1, 3>>}

\* values of the slots: no usage, the ends of the range, the id after the
\* range, a value that carries the page of the range and one that carries
\* another page
SlotValues == {0, 1, 3, 4, 7 * 65536 + 1, 8 * 65536 + 1}

Programs == {"hidutils", "hid-recorder"}

Fields ==
    {[program |-> p, usage_page |-> KeyboardPage, usage_minimum |-> r[1],
      usage_maximum |-> r[2], vs |-> v] :
        p \in Programs, r \in UsageRanges,
        v \in UNION {[1..n -> SlotValues] : n \in 0..MaxValues}}

Usage(page, id) == [usage_page |-> page, usage_id |-> id]

\* if (v & 0xffff0000) != 0 { Usage::from(*v) }
\* else { Usage::from_page_and_id(usage_range.minimum().usage_page(), ..) }
usage_of(f, v) ==
    IF v \div 65536 # 0
    THEN Usage(v \div 65536, v % 65536)
    ELSE Usage(f.usage_page, v % 65536)

\* usage_range.lookup_usage(&usage)
lookup_usage(f, u) ==
    IF /\ u.usage_page = f.usage_page
       /\ u.usage_id \in f.usage_minimum..f.usage_maximum
    THEN Some(u) ELSE None

\* arr.usages().len()
usages_len(f) == f.usage_maximum - f.usage_minimum + 1

\* what is printed: "{hutstr}: {v:5} | " for a usage, "{v:02x} | " for a
\* bare value, "{hutstr}: {..:02x} |" for all the values of the field
Printed(kind, usage, values) ==
    [kind |-> kind, usage |-> usage, values |-> values]

\* the else branch of `if let Some(usage) = usage_range.lookup_usage(..)`
out_of_range(v) == <<Printed("raw", None, <<v>>)>>

\* the Array arm of print_field_values of src/src/main.rs
print_field_values(f) ==
    IF usages_len(f) > 1
    THEN Concat([k \in 1..Len(f.vs) |->
            LET u == lookup_usage(f, usage_of(f, f.vs[k]))
            IN  IF u # None THEN <<Printed("usage", u, <<f.vs[k]>>)>>
                ELSE out_of_range(f.vs[k])])
    ELSE <<Printed("all", Some(Usage(f.usage_page, f.usage_minimum)), f.vs)>>

\* the Array arm of print_field_values of src/hid-recorder/src/main.rs
recorder_print_field_values(f) ==
    Concat([k \in 1..Len(f.vs) |->
        LET u == lookup_usage(f, usage_of(f, f.vs[k]))
        IN  IF u # None THEN <<Printed("usage", u, <<f.vs[k]>>)>> ELSE <<>>])

PrintFieldValues ==
    /\ fpc = "print"
    /\ fvout' = IF field.program = "hidutils"
                THEN print_field_values(field)
                ELSE recorder_print_field_values(field)
    /\ fpc' = "done"
    /\ UNCHANGED field
    /\ UNCHANGED <<capVars, codecVars, replayVars, descVars, naVars, winVars>>

FieldInit ==
    /\ CaptureIdle({FALSE})
    /\ CodecIdle
    /\ ReplayIdle
    /\ DescIdle
    /\ NumberArrayIdle
    /\ field \in Fields
    /\ fvout = <<>>
    /\ fpc = "print"
    /\ WindowIdle

FieldNext == PrintFieldValues

SpecField == FieldInit /\ [][FieldNext]_vars

\* the value of a slot is a usage of the field's range
InRange(f, v) ==
    \/ v \in f.usage_minimum..f.usage_maximum
    \/ /\ v \div 65536 = f.usage_page
       /\ v % 65536 \in f.usage_minimum..f.usage_maximum

\* C30: the values printed for an Array field are the values of its slots
\* that are usages of its range, in order; nothing is printed for the slot
\* of another value.
C30_OutOfRangeIgnored ==
    fpc = "done" =>
        LET inside == SelectSeq(field.vs, LAMBDA v : InRange(field, v))
        IN  Concat([k \in 1..Len(fvout) |-> fvout[k].values]) = inside

(***************************************************************************)
(* The value of a Variable field: the Variable arm of print_field_values   *)
(* of src/src/main.rs (1008-1032).                                         *)
(***************************************************************************)
ReportBytes == 7     \* bytes of the report that holds the field

\* the report: byte k holds the value 16 + k
ReportBuffer == [k \in 1..ReportBytes |-> 16 + k]

\* var.bits: the bit ranges start..end of the report, of 31 bits and more
VariableFields ==
    {f \in [program : {"hidutils"}, bits_start : 0..(8 * ReportBytes),
            bits_end : 0..(8 * ReportBytes), bytes : {ReportBuffer}] :
        f.bits_end - f.bits_start >= 31}

\* &bytes[from..to]: the bytes with the indices from .. to - 1, counted from 0
slice_end(bits_end) == bits_end \div 8

Slice(bytes, from, to) == SubSeq(bytes, from + 1, to)

\* 32 bits and less: the scalar var.extract_i32 or var.extract_u32 gives;
\* more: let data = &bytes[var.bits.start / 8..var.bits.end / 8]
print_variable_value(f) ==
    IF f.bits_end - f.bits_start <= 32
    THEN <<Printed("scalar", None, <<>>)>>
    ELSE <<Printed("bytes", None,
                   Slice(f.bytes, f.bits_start \div 8, slice_end(f.bits_end)))>>

PrintVariableValue ==
    /\ fpc = "print"
    /\ fvout' = print_variable_value(field)
    /\ fpc' = "done"
    /\ UNCHANGED field
    /\ UNCHANGED <<capVars, codecVars, replayVars, descVars, naVars, winVars>>

VariableInit ==
    /\ CaptureIdle({FALSE})
    /\ CodecIdle
    /\ ReplayIdle
    /\ DescIdle
    /\ NumberArrayIdle
    /\ field \in VariableFields
    /\ fvout = <<>>
    /\ fpc = "print"
    /\ WindowIdle

VariableNext == PrintVariableValue

SpecVariable == VariableInit /\ [][VariableNext]_vars

\* the bytes of the report that hold the bits start .. end - 1
BytesHolding(bytes, start, end) ==
    SubSeq(bytes, (start \div 8) + 1, ((end - 1) \div 8) + 1)

\* C31: for a Variable field of more than 32 bits the bytes printed are the
\* bytes of the report that hold the bits of the field, all of them and no
\* other.
C31_WideFieldBytes ==
    (fpc = "done" /\ field.bits_end - field.bits_start > 32) =>
        /\ Len(fvout) = 1
        /\ fvout[1].values
               = BytesHolding(field.bytes, field.bits_start, field.bits_end)

\* the step in which preload_bpf_tracer decides, past the lookup of the
\* device in sysfs
Decides == pc = "start" /\ pc' # "start" /\ pc' # "exit_ok" /\ err' # "sysfs"

\* C32: the load of a kernel program is attempted with Always, with Auto
\* when the device's directory in /sys/fs/bpf/hid exists, and in no other
\* case; a session without an attempted load holds no attachment and reads
\* no ring buffer.
C32_BpfOptionDecides ==
    /\ [][Decides =>
             ((attempted' # {})
                 <=> (use_bpf = "Always" \/ (use_bpf = "Auto" /\ bpffs)))]_vars
    /\ [](attempted = {} =>
             (link = "none" /\ ~ringbuf /\ skel \in {"unset", "None"}))

\* C32 witness: the directory exists and the session reads the device
\* without a kernel program, which only Never gives.
C32_Witness ==
    /\ bpffs
    /\ attempted = {}
    /\ skel = "None"
    /\ pc = "poll"

\* the capture loop is inside ringbuf.consume()
Consuming == pc \in {"consume_read", "consume"}

\* C33: capture_start is set whenever the loop consumes the ring buffer, and
\* so at every call of the packet handler.
C33_HandlerAfterCaptureStart ==
    /\ [](Consuming => start_time # None)
    /\ [][hist' # hist => start_time # None]_vars

\* C33 witness: the handler has run in a session whose first wake-up came
\* from the ring buffer, before any read of the device.
C33_Witness ==
    /\ hist # <<>>
    /\ reads = <<>>
    /\ start_time # None

\* payload k went through the handler's arithmetic: it has the size of the
\* struct and a length other than 0
Computed(k) == ~InvalidSize(hist[k]) /\ hist[k].length # 0

\* C34: for every payload of the size of the struct the handler finishes:
\* packet_count - 1 and length - packet_number * 64 are not negative, the
\* number of bytes appended lies between 0 and 64, and the handler does not
\* panic.
C34_HandlerArithmeticSafe ==
    /\ pc # "panic"
    /\ \A k \in 1..Len(hist) :
          Computed(k) =>
              /\ hist[k].packet_count - 1 >= 0
              /\ CopySize(hist[k]) \in 0..PACKET_SIZE

\* C35: every buffer the handler emits is as long as the length field of
\* the packet that made the handler emit it says.
C35_EmittedLength ==
    \A k \in 1..Len(out) :
        out[k].kind = "B" => Len(out[k].bytes) = hist[out[k].at].length

\* C36: every byte of an E: record is a byte the read that produced the
\* record returned: byte i of the record written after the k-th read is
\* byte i of what that read put into the buffer.
C36_RecordBytesFromItsRead ==
    \A k \in 1..Len(out) :
        out[k].kind = "E" =>
            \A i \in 1..Len(out[k].bytes) :
                /\ i <= reads[out[k].at].n
                /\ out[k].bytes[i] = <<"H", out[k].at, i>>

(***************************************************************************)
(* The values of a report, grouped by Logical collection: the loop over    *)
(* the fields in parse_input_report of src/src/main.rs (1091-1123) and in  *)
(* parse_report of src/hid-recorder/src/main.rs (560-592).                 *)
(***************************************************************************)
MaxFields == 3       \* fields of the report

Collection(id, type) == [id |-> id, collection_type |-> type]

\* f.collections() of a field, the outermost first: an Application
\* collection alone, with a Logical collection inside it, with a second
\* Logical collection nested in the first, with another Logical collection
CollectionStacks ==
    {<<Collection(1, "Application")>>,
     <<Collection(1, "Application"), Collection(2, "Logical")>>,
     <<Collection(1, "Application"), Collection(2, "Logical"),
       Collection(3, "Logical")>>,
     <<Collection(1, "Application"), Collection(4, "Logical")>>}

\* report.fields(): each field stands for its collections
ReportFields == UNION {[1..n -> CollectionStacks] : n \in 0..MaxFields}

is_logical(c) == c.collection_type = "Logical"

\* fields.iter().flat_map(|f| f.collections()).filter(Logical)
\*     .collect::<HashSet<_>>()
logical_collections(fields) ==
    {c \in UNION {{f[k] : k \in 1..Len(f)} :
                      f \in {fields[i] : i \in 1..Len(fields)}} :
        is_logical(c)}

\* collections.sort_by(|a, b| a.id().partial_cmp(b.id()).unwrap())
RECURSIVE sort_by_id(_)
sort_by_id(cs) ==
    IF cs = {} THEN <<>>
    ELSE LET first == CHOOSE c \in cs : \A d \in cs : c.id <= d.id
         IN  <<first>> \o sort_by_id(cs \ {first})

\* f.collections().iter().rev().find(Logical).map(|c| c == collection)
\*     .unwrap_or(false)
deepest_is(f, collection) ==
    LET logical == SelectSeq(f, is_logical)
    IN  IF logical = <<>> THEN FALSE ELSE Last(logical) = collection

\* the lines printed for the fields: on each line the numbers of the fields
\* whose values print_field_values prints on it
field_lines(fields) ==
    LET all == [i \in 1..Len(fields) |-> i]
        sorted == sort_by_id(logical_collections(fields))
    IN  IF logical_collections(fields) = {}
        THEN <<all>>
        ELSE [k \in 1..Len(sorted) |->
                 SelectSeq(all, LAMBDA i : deepest_is(fields[i], sorted[k]))]

PrintReportFields ==
    /\ fpc = "print"
    /\ fvout' = field_lines(field.fields)
    /\ fpc' = "done"
    /\ UNCHANGED field
    /\ UNCHANGED <<capVars, codecVars, replayVars, descVars, naVars, winVars>>

ReportInit ==
    /\ CaptureIdle({FALSE})
    /\ CodecIdle
    /\ ReplayIdle
    /\ DescIdle
    /\ NumberArrayIdle
    /\ field \in [program : {"hidutils"}, fields : ReportFields]
    /\ fvout = <<>>
    /\ fpc = "print"
    /\ WindowIdle

ReportNext == PrintReportFields

SpecReport == ReportInit /\ [][ReportNext]_vars

\* how many times the values of field i are printed
TimesPrinted(i) ==
    Len(SelectSeq(Concat(fvout), LAMBDA j : j = i))

\* C37: the values of every field of the report are printed exactly once.
C37_EveryFieldOnce ==
    fpc = "done" => \A i \in 1..Len(field.fields) : TimesPrinted(i) = 1

(***************************************************************************)
(* The two parsers of a recording on one file.                             *)
(***************************************************************************)
\* C38: a file that parse of hid-replay accepts is accepted by
\* HidRecorderBackend::try_from, with the same name, ids, descriptor bytes
\* and events.
C38_ParsersAgree ==
    (cpc = "replayed" /\ recording.status = "ok") =>
        /\ try_from(file).status = "ok"
        /\ try_from(file).name = recording.name
        /\ try_from(file).ids = recording.ids
        /\ try_from(file).rdesc = recording.rdesc
        /\ try_from(file).events = recording.events

\* an accepted file with a name that ends in a space and with events
C38_Witness ==
    /\ cpc = "replayed"
    /\ recording.status = "ok"
    /\ recording.events # <<>>
    /\ \E k \in 1..Len(file) : file[k] # trim(file[k])

(***************************************************************************)
(* The length summary of hid_replay, src/hid-replay/src/main.rs (141-150). *)
(***************************************************************************)
\* last_event.usecs - cli.start_time * 1000 as a number: the u64
\* subtraction underflows when it is negative
summary_usecs(events, opts) == Last(events).usecs - opts.start_time * 1000

\* C39: with an event left after the window, the last event is not earlier
\* than the start of the window and the subtraction of the length summary
\* does not underflow.
C39_SummaryNoUnderflow ==
    (rpc = "read" /\ revents # <<>>) => summary_usecs(revents, cli) >= 0

(***************************************************************************)
(* The progress line of hid_replay over long replays: the prompt loop of   *)
(* src/hid-replay/src/main.rs (245-283) without its sleeps.                *)
(***************************************************************************)
BarEvents == 34      \* events of the long recording

MaxReplays == 3      \* lines read at the prompt

\* recordings of one event and of BarEvents events, all at 0 us
BarRecordings == {[k \in 1..n |-> Event(0, 1)] : n \in {1, BarEvents}}

\* the prompt: "quit" ends the loop, another line starts a replay
ProgressReadLine ==
    /\ rpc = "armed"
    /\ Len(triggers) < MaxReplays
    /\ \E line \in {"enter", "quit"} :
          /\ triggers' = Append(triggers, line)
          /\ rpc' = IF line = "quit" THEN "stopped" ELSE "replay"
          /\ idx' = IF line = "enter" THEN 1 ELSE idx
    /\ UNCHANGED <<revents, uhid, replies, sysfs, observed, rnow, loop_start,
                   writes, renv>>
    /\ UNCHANGED <<capVars, codecVars, toolVars>>

\* one iteration of the for loop: the progress line is printed with the
\* '*' at pos, the event is written, and after a write that did not fail
\* pos and direction are stepped; writes holds the places printed
ProgressEvent ==
    /\ rpc = "replay"
    /\ idx <= Len(revents)
    /\ writes' = Append(writes, pos)
    /\ \E ok \in BOOLEAN :
          IF ok
          THEN /\ idx' = idx + 1
               /\ rpc' = "replay"
               /\ pos' = bar_pos(pos, direction)
               /\ direction' = bar_direction(bar_pos(pos, direction), direction)
          ELSE /\ rpc' = "exit_err"
               /\ UNCHANGED <<idx, pos, direction>>
    /\ UNCHANGED <<revents, uhid, replies, sysfs, observed, rnow, loop_start,
                   triggers, renv>>
    /\ UNCHANGED <<capVars, codecVars, descVars, naVars, fieldVars, cli,
                   recorded>>

ProgressInit ==
    /\ CaptureIdle({FALSE})
    /\ CodecIdle
    /\ rpc = "armed"
    /\ revents \in BarRecordings
    /\ uhid = <<>>
    /\ replies = <<>>
    /\ sysfs = <<>>
    /\ observed = <<>>
    /\ rnow = 0
    /\ loop_start = 0
    /\ idx = 0
    /\ writes = <<>>
    /\ triggers = <<>>
    /\ renv = 0
    /\ DescIdle
    /\ NumberArrayIdle
    /\ FieldIdle
    /\ cli = [start_time |-> 0, stop_time |-> 0]
    /\ recorded = revents
    /\ pos = 0
    /\ direction = 1

ProgressNext ==
    \/ ProgressReadLine
    \/ ProgressEvent
    \/ ReplayDone

SpecProgress == ProgressInit /\ [][ProgressNext]_vars

\* C40: the place of the '*' stays between 0 and 49, in the counter and in
\* every progress line printed, so that `pos as usize` and `50 - pos` do not
\* wrap.
C40_BarInRange ==
    /\ 0 <= pos /\ pos <= BarEnd
    /\ \A k \in 1..Len(writes) : 0 <= writes[k] /\ writes[k] <= BarEnd

\* the '*' went to column 49, came back to column 0 and left it again, over
\* more than one replay
C40_Witness ==
    /\ Len(writes) > 2 * BarEnd + 1
    /\ writes[BarEnd + 1] = BarEnd
    /\ writes[2 * BarEnd + 1] = 0
    /\ writes[2 * BarEnd + 2] = 1
    /\ Len(triggers) > 1

==============================================================================
